---------------------------- MODULE Spec2Model ----------------------------
(***************************************************************************)
(* A model of the ARK resolver core (dasch-swiss/ark-resolver): the        *)
(* base64url check-digit codec, the UUID escaper, the dual-grammar ARK id  *)
(* parser and the redirect resolution engine.                              *)
(*                                                                         *)
(* Strings are sequences of one-character strings, so that every string    *)
(* operation of the source (concatenation, replace, split, slicing, regex  *)
(* matching) is computed and not assumed.  All characters are ASCII, so a  *)
(* string's byte length (str::len) equals its number of chars.             *)
(***************************************************************************)
EXTENDS Integers, Sequences, FiniteSets, TLC

VARIABLES
    code,        \* codec: the code / UUID handed to the codec functions
    check,       \* codec: result of calculate_check_digit(code)
    valid,       \* codec: result of is_valid(code ++ check digit)
    escaped,     \* codec: result of add_check_digit_and_escape(code)
    unescaped,   \* codec: result of unescape_and_validate_uuid(context, escaped)
    context,     \* codec: the ark_url argument of unescape_and_validate_uuid
    settings,    \* the loaded ArkUrlSettings (NAAN, DSP ARK version, registry)
    request,     \* the ARK id handed to parse_ark_id
    parsed,      \* parse_ark_id's result and the port calls it made
    inner,       \* the ArkUrlInfo the engine is given (PyArkUrlInfo.inner)
    key_order,   \* the order in which a substitution map yields its keys
    selected,    \* result of determine_redirect_template(inner)
    redirect,    \* what generate_redirect_url(inner) left behind
    iri,         \* the resource IRI handed to resource_iri_to_ark_id
    stamp,       \* the optional timestamp handed to resource_iri_to_ark_id
    built,       \* result of resource_iri_to_ark_id(iri, stamp)
    includes,    \* the includes_check_digit flag handed to calculate_modulus
    modulus,     \* result of calculate_modulus(code, includes)
    legacy_unescaped, \* result of unescape_and_validate_uuid_internal(context, code)
    tasks,       \* the resolver invocations running side by side
    dsp_redirect,   \* what to_dsp_redirect_url (generate_dsp_redirect_url(inner)) left behind
    standalone_iri, \* what to_resource_iri (generate_resource_iri(inner)) left behind
    url_parts,   \* the arguments handed to the formatter's format_ark_url
    url,         \* result of format_ark_url(url_parts)
    tpl_tokens,  \* the template handed to substitute, as its pieces
    tpl_values,  \* the substitution map handed to substitute
    tpl_result,  \* result of substitute
    transcribed, \* a valid code copied with an error, and is_valid of the copy
    legacy       \* results of the functions of base64url_ckeck_digit.rs on code

codecVars == <<code, check, valid, escaped, unescaped, context>>

parserVars == <<settings, request, parsed>>

engineVars == <<inner, key_order, selected, redirect, dsp_redirect, standalone_iri>>

formatterVars == <<iri, stamp, built, url_parts, url>>

modulusVars == <<includes, modulus, legacy_unescaped, transcribed, legacy>>

templateVars == <<tpl_tokens, tpl_values, tpl_result>>

vars == <<code, check, valid, escaped, unescaped, context, settings, request, parsed,
          inner, key_order, selected, redirect, iri, stamp, built,
          includes, modulus, legacy_unescaped, tasks, dsp_redirect, standalone_iri,
          url_parts, url, tpl_tokens, tpl_values, tpl_result, transcribed, legacy>>

-----------------------------------------------------------------------------
(* Results: Rust's Result<T, E>.  val is the value when ok and the error's  *)
(* payload when not; Pending marks a call that has not been made.          *)

Ok(v) == [ok |-> TRUE, val |-> v, err |-> "none"]

Err(e) == [ok |-> FALSE, val |-> <<>>, err |-> e]

\* An error that carries a payload (the ARK id or message it was built with).
ErrWith(e, payload) == [ok |-> FALSE, val |-> payload, err |-> e]

Pending == [ok |-> FALSE, val |-> <<>>, err |-> "pending"]

IsPending(r) == (~r.ok) /\ r.err = "pending"

-----------------------------------------------------------------------------
(* Bounds of the codec inputs.                                             *)

MaxCodeLen == 3

\* The characters codec inputs are drawn from: alphabet values 0, 1, 16, 32,
\* 61, 62 ('-') and 63, and '=' which is outside the alphabet.
CodeChars == {"A", "B", "Q", "g", "9", "-", "_", "="}

RECURSIVE StringsUpTo(_, _)
StringsUpTo(chars, n) ==
    IF n = 0 THEN {<<>>}
    ELSE LET shorter == StringsUpTo(chars, n - 1)
         IN  shorter \cup {Append(s, c) : s \in {t \in shorter : Len(t) = n - 1}, c \in chars}

Codes == StringsUpTo(CodeChars, MaxCodeLen)

\* The ark_url arguments the escaper is called with.
Contexts == {<<>>, <<"a", "r", "k", ":", "/", "t">>}

-----------------------------------------------------------------------------
(* core/domain/check_digit.rs                                              *)

BASE64URL_ALPHABET ==
    <<"A","B","C","D","E","F","G","H","I","J","K","L","M","N","O","P",
      "Q","R","S","T","U","V","W","X","Y","Z",
      "a","b","c","d","e","f","g","h","i","j","k","l","m","n","o","p",
      "q","r","s","t","u","v","w","x","y","z",
      "0","1","2","3","4","5","6","7","8","9","-","_">>

BASE64URL_ALPHABET_LENGTH == 64

InAlphabet(ch) == \E i \in 1..Len(BASE64URL_ALPHABET) : BASE64URL_ALPHABET[i] = ch

\* to_int: the zero-based index of ch in the alphabet, or InvalidCharacter.
to_int(ch) ==
    IF InAlphabet(ch)
    THEN Ok((CHOOSE i \in 1..Len(BASE64URL_ALPHABET) : BASE64URL_ALPHABET[i] = ch) - 1)
    ELSE Err("InvalidCharacter")

\* to_check_digit: the alphabet character of a value in 0..63.
to_check_digit(char_value) ==
    IF char_value < 0 \/ char_value >= BASE64URL_ALPHABET_LENGTH
    THEN Err("InvalidCharacterValue")
    ELSE Ok(BASE64URL_ALPHABET[char_value + 1])

\* A faulty weighted_value: the position does not count.
weighted_value_unweighted(char_value, right_pos) == char_value

weighted_value(char_value, right_pos) == char_value * right_pos

\* The running total of calculate_modulus' loop over code[1..n] (n chars
\* consumed), for a code whose chars are all in the alphabet.
RECURSIVE ModulusTotal(_, _, _)
ModulusTotal(codeStr, length, n) ==
    IF n = 0 THEN 0
    ELSE ModulusTotal(codeStr, length, n - 1)
         + weighted_value(to_int(codeStr[n]).val, length - (n - 1))

\* A faulty calculate_modulus: the place of the check digit is not counted.
calculate_modulus_short(codeStr, includes_check_digit) ==
    LET total == ModulusTotal(codeStr, Len(codeStr), Len(codeStr))
    IN  IF \E i \in 1..Len(codeStr) : ~InAlphabet(codeStr[i])
        THEN Err("InvalidCharacter")
        ELSE IF total = 0
        THEN Err("InvalidCode")
        ELSE Ok(total % BASE64URL_ALPHABET_LENGTH)

calculate_modulus(codeStr, includes_check_digit) ==
    LET length == IF includes_check_digit THEN Len(codeStr) ELSE Len(codeStr) + 1
        total  == ModulusTotal(codeStr, length, Len(codeStr))
    IN  IF \E i \in 1..Len(codeStr) : ~InAlphabet(codeStr[i])
        THEN Err("InvalidCharacter")          \* to_int(ch)? returns at the first bad char
        ELSE IF total = 0
        THEN Err("InvalidCode")
        ELSE Ok(total % BASE64URL_ALPHABET_LENGTH)

\* A faulty is_valid: a failure of calculate_modulus is passed on.
is_valid_propagating(codeStr) ==
    IF codeStr = <<>> THEN Ok(FALSE)
    ELSE LET m == calculate_modulus(codeStr, TRUE)
         IN  IF m.ok THEN Ok(m.val = 0) ELSE Err(m.err)

is_valid(codeStr) ==
    IF codeStr = <<>> THEN Ok(FALSE)
    ELSE LET m == calculate_modulus(codeStr, TRUE)
         IN  IF m.ok THEN Ok(m.val = 0) ELSE Ok(FALSE)

\* A faulty calculate_check_digit: the modulus itself is used as the check value.
calculate_check_digit_no_complement(codeStr) ==
    IF codeStr = <<>> THEN Err("EmptyCode")
    ELSE LET m == calculate_modulus(codeStr, FALSE)
         IN  IF ~m.ok THEN Err(m.err) ELSE to_check_digit(m.val)

calculate_check_digit(codeStr) ==
    IF codeStr = <<>> THEN Err("EmptyCode")
    ELSE LET m == calculate_modulus(codeStr, FALSE)
         IN  IF ~m.ok THEN Err(m.err)
             ELSE to_check_digit((BASE64URL_ALPHABET_LENGTH - m.val) % BASE64URL_ALPHABET_LENGTH)

-----------------------------------------------------------------------------
(* src/base64url_ckeck_digit.rs: the check digit functions the PyO3        *)
(* module exports and src/uuid_processing.rs calls.  Their failures are    *)
(* PyValueErrors.                                                          *)

to_int_internal(ch) ==
    IF \E i \in 1..Len(BASE64URL_ALPHABET) : BASE64URL_ALPHABET[i] = ch
    THEN Ok((CHOOSE i \in 1..Len(BASE64URL_ALPHABET) : BASE64URL_ALPHABET[i] = ch) - 1)
    ELSE Err("InvalidCharacter")

to_check_digit_internal(char_value) ==
    IF char_value < 0 \/ char_value >= BASE64URL_ALPHABET_LENGTH
    THEN Err("InvalidCharacterValue")
    ELSE Ok(BASE64URL_ALPHABET[char_value + 1])

weighted_value_internal(char_value, right_pos) == char_value * right_pos

\* The running total of calculate_modulus_internal's loop after n chars
RECURSIVE TotalInternal(_, _, _)
TotalInternal(codeStr, length, n) ==
    IF n = 0 THEN 0
    ELSE TotalInternal(codeStr, length, n - 1)
         + weighted_value_internal(to_int_internal(codeStr[n]).val, length - (n - 1))

\* A faulty calculate_modulus_internal: a total of 0 is not rejected.
calculate_modulus_internal_zero(codeStr, includes_check_digit) ==
    LET length == IF includes_check_digit THEN Len(codeStr) ELSE Len(codeStr) + 1
        total  == TotalInternal(codeStr, length, Len(codeStr))
    IN  IF \E i \in 1..Len(codeStr) : ~to_int_internal(codeStr[i]).ok
        THEN Err("InvalidCharacter")
        ELSE Ok(total % BASE64URL_ALPHABET_LENGTH)

calculate_modulus_internal(codeStr, includes_check_digit) ==
    LET length == IF includes_check_digit THEN Len(codeStr) ELSE Len(codeStr) + 1
        total  == TotalInternal(codeStr, length, Len(codeStr))
    IN  IF \E i \in 1..Len(codeStr) : ~to_int_internal(codeStr[i]).ok
        THEN Err("InvalidCharacter")
        ELSE IF total = 0
        THEN Err("InvalidCode")
        ELSE Ok(total % BASE64URL_ALPHABET_LENGTH)

\* base64url_ckeck_digit::is_valid
legacy_is_valid(codeStr) ==
    IF codeStr = <<>> THEN Ok(FALSE)
    ELSE LET m == calculate_modulus_internal(codeStr, TRUE)
         IN  IF m.ok THEN Ok(m.val = 0) ELSE Ok(FALSE)

\* base64url_ckeck_digit::calculate_check_digit
legacy_calculate_check_digit(codeStr) ==
    IF codeStr = <<>> THEN Err("PyValueError")
    ELSE LET m == calculate_modulus_internal(codeStr, FALSE)
         IN  IF ~m.ok THEN Err("PyValueError")
             ELSE LET c == to_check_digit_internal(
                               (BASE64URL_ALPHABET_LENGTH - m.val) % BASE64URL_ALPHABET_LENGTH)
                  IN  IF c.ok THEN c ELSE Err("PyValueError")

-----------------------------------------------------------------------------
(* core/domain/uuid_processing.rs                                          *)

\* str::replace for a single-character pattern and replacement.
ReplaceChar(s, from, to) == [i \in 1..Len(s) |-> IF s[i] = from THEN to ELSE s[i]]

\* A faulty add_check_digit_and_escape: '-' is left as it is.
add_check_digit_and_escape_hyphens(uuid) ==
    LET cd == calculate_check_digit(uuid)
    IN  IF ~cd.ok THEN Err("CheckDigitError")
        ELSE Ok(Append(uuid, cd.val))

add_check_digit_and_escape(uuid) ==
    LET cd == calculate_check_digit(uuid)
    IN  IF ~cd.ok THEN Err("CheckDigitError")
        ELSE Ok(ReplaceChar(Append(uuid, cd.val), "-", "="))

\* A faulty unescape_and_validate_uuid: '=' is not turned back into '-'.
unescape_and_validate_uuid_no_unescape(ark_url, escaped_uuid) ==
    IF escaped_uuid = <<>> THEN ErrWith("EmptyUuid", ark_url)
    ELSE LET v == is_valid(ReplaceChar(escaped_uuid, "=", "-"))
         IN  IF ~v.val THEN ErrWith("InvalidArkId", ark_url)
             ELSE Ok(SubSeq(escaped_uuid, 1, Len(escaped_uuid) - 1))

\* ark_url is used for the error's payload only.
unescape_and_validate_uuid(ark_url, escaped_uuid) ==
    IF escaped_uuid = <<>> THEN ErrWith("EmptyUuid", ark_url)
    ELSE LET unescaped_uuid == ReplaceChar(escaped_uuid, "=", "-")
             v == is_valid(unescaped_uuid)
         IN  IF unescaped_uuid = <<>> THEN ErrWith("EmptyUuid", ark_url)
             ELSE IF ~v.ok THEN Err("CheckDigitError")
             ELSE IF ~v.val THEN ErrWith("InvalidArkId", ark_url)
             ELSE Ok(SubSeq(unescaped_uuid, 1, Len(unescaped_uuid) - 1))

\* src/uuid_processing.rs unescape_and_validate_uuid_internal, which calls
\* is_valid of base64url_ckeck_digit.rs; the failures are PyValueErrors told
\* apart by their message.
unescape_and_validate_uuid_internal(ark_url, escaped_uuid) ==
    LET unescaped_uuid == ReplaceChar(escaped_uuid, "=", "-")
        v == legacy_is_valid(unescaped_uuid)
    IN  IF ~v.ok THEN Err("PyValueError")
        ELSE IF ~v.val THEN ErrWith("Invalid ARK ID", ark_url)
        ELSE IF unescaped_uuid = <<>> THEN ErrWith("Empty UUID in ARK ID", ark_url)
        ELSE Ok(SubSeq(unescaped_uuid, 1, Len(unescaped_uuid) - 1))

-----------------------------------------------------------------------------
(* Strings, options and character classes.                                 *)

None == [some |-> FALSE, v |-> <<>>]

Some(x) == [some |-> TRUE, v |-> x]

\* str::find(ch): the 1-based index of the first ch in s, or 0.
FindChar(s, ch) ==
    IF \E i \in 1..Len(s) : s[i] = ch
    THEN CHOOSE i \in 1..Len(s) : s[i] = ch /\ \A j \in 1..(i - 1) : s[j] # ch
    ELSE 0

StartsWith(s, prefix) ==
    Len(s) >= Len(prefix) /\ SubSeq(s, 1, Len(prefix)) = prefix

\* str::split(sep): the pieces of s between the occurrences of sep (always
\* at least one piece, pieces may be empty).
RECURSIVE Split(_, _)
Split(s, sep) ==
    LET i == FindChar(s, sep)
    IN  IF i = 0 THEN <<s>>
        ELSE <<SubSeq(s, 1, i - 1)>> \o Split(SubSeq(s, i + 1, Len(s)), sep)

UpperLetters == SubSeq(BASE64URL_ALPHABET, 1, 26)

LowerLetters == SubSeq(BASE64URL_ALPHABET, 27, 52)

DigitChars == <<"0", "1", "2", "3", "4", "5", "6", "7", "8", "9">>

IndexIn(seq, ch) ==
    IF \E i \in 1..Len(seq) : seq[i] = ch
    THEN CHOOSE i \in 1..Len(seq) : seq[i] = ch
    ELSE 0

IsDigit(ch) == IndexIn(DigitChars, ch) # 0

\* [0-9A-Fa-f]
IsHexDigit(ch) == IsDigit(ch) \/ ch \in {"A", "B", "C", "D", "E", "F", "a", "b", "c", "d", "e", "f"}

\* [A-Za-z0-9]
IsAlnum(ch) == IsDigit(ch) \/ IndexIn(UpperLetters, ch) # 0 \/ IndexIn(LowerLetters, ch) # 0

\* ENCODED_UUID_PATTERN's class [A-Za-z0-9=_]
IsEncodedUuidChar(ch) == IsAlnum(ch) \/ ch \in {"=", "_"}

AllDigits(s) == \A i \in 1..Len(s) : IsDigit(s[i])

AllHexDigits(s) == \A i \in 1..Len(s) : IsHexDigit(s[i])

AllAlnum(s) == \A i \in 1..Len(s) : IsAlnum(s[i])

AllEncodedUuidChars(s) == \A i \in 1..Len(s) : IsEncodedUuidChar(s[i])

\* str::to_uppercase / str::to_lowercase on ASCII text
ToUpperChar(ch) ==
    IF IndexIn(LowerLetters, ch) # 0 THEN UpperLetters[IndexIn(LowerLetters, ch)] ELSE ch

ToLowerChar(ch) ==
    IF IndexIn(UpperLetters, ch) # 0 THEN LowerLetters[IndexIn(UpperLetters, ch)] ELSE ch

to_uppercase(s) == [i \in 1..Len(s) |-> ToUpperChar(s[i])]

to_lowercase(s) == [i \in 1..Len(s) |-> ToLowerChar(s[i])]

-----------------------------------------------------------------------------
(* u32 values.  A u32 is held as its canonical decimal digits (no leading  *)
(* zeros), since u32::MAX exceeds the integers of the model checker.       *)

U32_MAX_DIGITS == <<"4", "2", "9", "4", "9", "6", "7", "2", "9", "5">>

DigitValue(ch) == IndexIn(DigitChars, ch) - 1

RECURSIVE StripLeadingZeros(_)
StripLeadingZeros(d) ==
    IF Len(d) > 1 /\ d[1] = "0" THEN StripLeadingZeros(Tail(d)) ELSE d

\* a <= b for digit strings of the same length
RECURSIVE DigitsLeq(_, _)
DigitsLeq(a, b) ==
    IF a = <<>> THEN TRUE
    ELSE IF DigitValue(a[1]) < DigitValue(b[1]) THEN TRUE
    ELSE IF DigitValue(a[1]) > DigitValue(b[1]) THEN FALSE
    ELSE DigitsLeq(Tail(a), Tail(b))

\* str::parse::<u32>() on a string of decimal digits
parse_u32(s) ==
    LET d == StripLeadingZeros(s)
    IN  IF s = <<>> \/ ~AllDigits(s) THEN Err("InvalidDigit")
        ELSE IF Len(d) > Len(U32_MAX_DIGITS) THEN Err("PosOverflow")
        ELSE IF Len(d) = Len(U32_MAX_DIGITS) /\ ~DigitsLeq(d, U32_MAX_DIGITS) THEN Err("PosOverflow")
        ELSE Ok(d)

\* The decimal digits of a natural number (u8 -> u32 conversion, to_string)
RECURSIVE ToDecimal(_)
ToDecimal(n) ==
    IF n < 10 THEN <<DigitChars[n + 1]>>
    ELSE Append(ToDecimal(n \div 10), DigitChars[(n % 10) + 1])

\* `as u8` on a u32: the value modulo 256
RECURSIVE DecimalMod(_, _, _)
DecimalMod(d, m, acc) ==
    IF d = <<>> THEN acc
    ELSE DecimalMod(Tail(d), m, (acc * 10 + DigitValue(d[1])) % m)

AsU8(d) == DecimalMod(d, 256, 0)

-----------------------------------------------------------------------------
(* core/domain/parsing.rs: the two grammars, matched as the regexes match. *)
(* No character class of either regex contains '/', '-' or '.', so the     *)
(* separators split the text unambiguously.                                *)

ArkPrefix(ark_naan) == <<"a", "r", "k", ":", "/">> \o ark_naan \o <<"/">>

\* ark_path_regex(naan).captures(text):
\*   ^ark:/NAAN/([0-9]+)(?:/([0-9A-Fa-f]{4})(?:/([A-Za-z0-9=_]+)(?:/([A-Za-z0-9=_]+))?)?)?$
\* Some(<<g1, g2, g3, g4>>) with each group an option, or None.
ark_path_regex(ark_naan, text) ==
    IF ~StartsWith(text, ArkPrefix(ark_naan)) THEN None
    ELSE LET segs == Split(SubSeq(text, Len(ArkPrefix(ark_naan)) + 1, Len(text)), "/")
             n    == Len(segs)
         IN  IF /\ n <= 4
                /\ segs[1] # <<>> /\ AllDigits(segs[1])
                /\ (n >= 2 => Len(segs[2]) = 4 /\ AllHexDigits(segs[2]))
                /\ (n >= 3 => segs[3] # <<>> /\ AllEncodedUuidChars(segs[3]))
                /\ (n >= 4 => segs[4] # <<>> /\ AllEncodedUuidChars(segs[4]))
             THEN Some([i \in 1..4 |-> IF i <= n THEN Some(segs[i]) ELSE None])
             ELSE None

\* v0_ark_path_regex(naan).captures(text):
\*   ^ark:/NAAN/([0-9A-Fa-f]+)-([A-Za-z0-9]+)-[A-Za-z0-9]+(?:\.([0-9]{6,8}))?$
\* Some(<<g1, g2, g3>>) with each group an option, or None.
v0_ark_path_regex(ark_naan, text) ==
    IF ~StartsWith(text, ArkPrefix(ark_naan)) THEN None
    ELSE LET rest == SubSeq(text, Len(ArkPrefix(ark_naan)) + 1, Len(text))
             dot  == FindChar(rest, ".")
             body == IF dot = 0 THEN rest ELSE SubSeq(rest, 1, dot - 1)
             ts   == IF dot = 0 THEN <<>> ELSE SubSeq(rest, dot + 1, Len(rest))
             segs == Split(body, "-")
         IN  IF /\ Len(segs) = 3
                /\ segs[1] # <<>> /\ AllHexDigits(segs[1])
                /\ segs[2] # <<>> /\ AllAlnum(segs[2])
                /\ segs[3] # <<>> /\ AllAlnum(segs[3])
                /\ (dot # 0 => Len(ts) >= 6 /\ Len(ts) <= 8 /\ AllDigits(ts))
             THEN Some(<<Some(segs[1]), Some(segs[2]), IF dot = 0 THEN None ELSE Some(ts)>>)
             ELSE None

-----------------------------------------------------------------------------
(* core/domain/settings.rs                                                 *)

\* A faulty match_ark_path: the resource and value captures are swapped.
match_ark_path_swapped(s, ark_path) ==
    LET index     == FindChar(ark_path, ".")
        processed == IF index = 0 THEN ark_path ELSE SubSeq(ark_path, 1, index - 1)
        timestamp == IF index = 0 THEN None
                     ELSE Some(SubSeq(ark_path, index + 1, Len(ark_path)))
        captures  == ark_path_regex(s.ark_naan, processed)
    IN  IF ~captures.some THEN None
        ELSE Some(<<captures.v[1], captures.v[2], captures.v[4], captures.v[3], timestamp>>)

\* CompiledRegexes::match_ark_path: the timestamp is split off at the first
\* '.', the rest is matched by ark_path_regex.
\* Some(<<version, project, resource, value, timestamp>>), or None.
match_ark_path(s, ark_path) ==
    LET index     == FindChar(ark_path, ".")
        processed == IF index = 0 THEN ark_path ELSE SubSeq(ark_path, 1, index - 1)
        timestamp == IF index = 0 THEN None
                     ELSE Some(SubSeq(ark_path, index + 1, Len(ark_path)))
        captures  == ark_path_regex(s.ark_naan, processed)
    IN  IF ~captures.some THEN None
        ELSE Some(<<captures.v[1], captures.v[2], captures.v[3], captures.v[4], timestamp>>)

\* CompiledRegexes::match_v0_ark_path
match_v0_ark_path(s, v0_ark_path) == v0_ark_path_regex(s.ark_naan, v0_ark_path)

\* ProjectConfig::merge_with_defaults: the project's keys win
merge_with_defaults(config, defaults) ==
    [k \in (DOMAIN config) \cup (DOMAIN defaults) |->
        IF k \in DOMAIN config THEN config[k] ELSE defaults[k]]

\* SettingsRegistry::get_project_config: looked up by the lower-cased id
get_project_config(s, project_id) ==
    IF to_lowercase(project_id) \in DOMAIN s.projects
    THEN Some(merge_with_defaults(s.projects[to_lowercase(project_id)], s.default_config))
    ELSE None

\* ProjectConfig::get
ConfigGet(config, key) == IF key \in DOMAIN config THEN Some(config[key]) ELSE None

\* ProjectConfig::get_boolean
get_boolean(config, key) ==
    IF key \notin DOMAIN config THEN Ok(FALSE)
    ELSE IF config[key] \in {<<"t", "r", "u", "e">>, <<"1">>} THEN Ok(TRUE)
    ELSE IF config[key] \in {<<"f", "a", "l", "s", "e">>, <<"0">>} THEN Ok(FALSE)
    ELSE Err("InvalidBoolean")

-----------------------------------------------------------------------------
(* adapters/pyo3/ark_url_info.rs: the ports' implementations.              *)

\* ArkUrlParsingAdapter::parse_ark_v1
parse_ark_v1(s, ark_id) ==
    LET matches == match_ark_path(s, ark_id)
    IN  IF ~matches.some THEN None
        ELSE LET number      == IF matches.v[1].some THEN parse_u32(matches.v[1].v)
                                ELSE Err("NoCapture")
                 url_version == IF number.ok THEN number.val ELSE <<"1">>   \* unwrap_or(1)
             IN  Some(<<url_version, matches.v[2], matches.v[3], matches.v[4], matches.v[5]>>)

\* ArkUrlParsingAdapter::parse_ark_v0
parse_ark_v0(s, ark_id) ==
    LET matches == match_v0_ark_path(s, ark_id)
    IN  IF ~matches.some THEN None
        ELSE Some(<<IF matches.v[1].some THEN matches.v[1].v ELSE <<>>,     \* unwrap_or_default()
                    IF matches.v[2].some THEN matches.v[2].v ELSE <<>>,
                    matches.v[3]>>)

\* ArkUrlParsingAdapter::unescape_and_validate_uuid: the escaper's error is
\* wrapped in UuidProcessingFailed, its message kept.
port_unescape_and_validate_uuid(ark_url, escaped_uuid) ==
    LET r == unescape_and_validate_uuid(ark_url, escaped_uuid)
    IN  IF r.ok THEN r ELSE ErrWith("UuidProcessingFailed", r.err)

\* ConfigurationAdapter::get_dsp_ark_version (u8 into u32)
get_dsp_ark_version(s) == ToDecimal(s.dsp_ark_version)

\* ConfigurationAdapter::is_version_0_allowed
is_version_0_allowed(s, project_id) ==
    LET config == get_project_config(s, project_id)
    IN  IF ~config.some THEN ErrWith("ConfigurationError", "Project configuration not found")
        ELSE LET b == get_boolean(config.v, "AllowVersion0")
             IN  IF b.ok THEN b ELSE ErrWith("ConfigurationError", b.err)

-----------------------------------------------------------------------------
(* core/domain/ark_url_info.rs                                             *)

\* ArkUrlInfo::new
ArkUrlInfo(url_version, project_id, resource_id, value_id, timestamp) ==
    [url_version |-> url_version, project_id |-> project_id,
     resource_id |-> resource_id, value_id |-> value_id, timestamp |-> timestamp]

-----------------------------------------------------------------------------
(* core/use_cases/ark_url_info_processor.rs                                *)

\* A faulty v1 branch: the segments are validated before the version is
\* compared.
parse_ark_id_v1_validate_first(s, ark_id, components) ==
    LET url_version == components[1]
        escaped_res == components[3]
        escaped_val == components[4]
        res == IF escaped_res.some
               THEN port_unescape_and_validate_uuid(ark_id, escaped_res.v)
               ELSE Pending
        val == IF escaped_val.some
               THEN port_unescape_and_validate_uuid(ark_id, escaped_val.v)
               ELSE Pending
        resCall == IF escaped_res.some THEN <<"unescape_and_validate_uuid">> ELSE <<>>
        valCall == IF escaped_val.some THEN <<"unescape_and_validate_uuid">> ELSE <<>>
    IN  IF escaped_res.some /\ ~res.ok
        THEN [result |-> res, calls |-> resCall]
        ELSE IF escaped_val.some /\ ~val.ok
        THEN [result |-> val, calls |-> resCall \o valCall]
        ELSE IF url_version # get_dsp_ark_version(s)
        THEN [result |-> ErrWith("VersionMismatch", ark_id),
              calls  |-> resCall \o valCall \o <<"get_dsp_ark_version">>]
        ELSE [result |-> Ok(ArkUrlInfo(AsU8(url_version), components[2],
                                       IF escaped_res.some THEN Some(res.val) ELSE None,
                                       IF escaped_val.some THEN Some(val.val) ELSE None,
                                       components[5])),
              calls  |-> resCall \o valCall \o <<"get_dsp_ark_version">>]

\* parse_ark_id, the branch taken when parse_ark_v1 matched (components is
\* its tuple).  Every result is paired with the port calls made, in order.
parse_ark_id_v1(s, ark_id, components) ==
    LET url_version == components[1]
        escaped_res == components[3]
        escaped_val == components[4]
        res == IF escaped_res.some
               THEN port_unescape_and_validate_uuid(ark_id, escaped_res.v)
               ELSE Pending
        val == IF escaped_val.some
               THEN port_unescape_and_validate_uuid(ark_id, escaped_val.v)
               ELSE Pending
        resCall == IF escaped_res.some THEN <<"unescape_and_validate_uuid">> ELSE <<>>
        valCall == IF escaped_val.some THEN <<"unescape_and_validate_uuid">> ELSE <<>>
    IN  IF url_version # get_dsp_ark_version(s)
        THEN [result |-> ErrWith("VersionMismatch", ark_id),
              calls  |-> <<"get_dsp_ark_version">>]
        ELSE IF escaped_res.some /\ ~res.ok
        THEN [result |-> res, calls |-> <<"get_dsp_ark_version">> \o resCall]
        ELSE IF escaped_val.some /\ ~val.ok
        THEN [result |-> val, calls |-> <<"get_dsp_ark_version">> \o resCall \o valCall]
        ELSE [result |-> Ok(ArkUrlInfo(AsU8(url_version), components[2],
                                       IF escaped_res.some THEN Some(res.val) ELSE None,
                                       IF escaped_val.some THEN Some(val.val) ELSE None,
                                       components[5])),
              calls  |-> <<"get_dsp_ark_version">> \o resCall \o valCall]

\* A faulty v0 branch: a failed is_version_0_allowed lookup counts as "not
\* allowed" instead of being returned.
parse_ark_id_v0_lenient(s, ark_id, components) ==
    LET project_id == to_uppercase(components[1])
        allowed == is_version_0_allowed(s, project_id)
        timestamp == IF components[3].some /\ Len(components[3].v) >= 8
                     THEN components[3] ELSE None
    IN  IF ~allowed.ok \/ ~allowed.val
        THEN [result |-> ErrWith("Version0NotAllowed", ark_id),
              calls |-> <<"is_version_0_allowed">>]
        ELSE [result |-> Ok(ArkUrlInfo(0, Some(project_id), Some(components[2]),
                                       None, timestamp)),
              calls |-> <<"is_version_0_allowed">>]

\* A faulty v0 branch: the project id is returned as matched and the
\* timestamp is kept only when longer than 8 characters.
parse_ark_id_v0_raw(s, ark_id, components) ==
    LET allowed == is_version_0_allowed(s, components[1])
        timestamp == IF components[3].some /\ Len(components[3].v) > 8
                     THEN components[3] ELSE None
    IN  IF ~allowed.ok
        THEN [result |-> allowed, calls |-> <<"is_version_0_allowed">>]
        ELSE IF ~allowed.val
        THEN [result |-> ErrWith("Version0NotAllowed", ark_id),
              calls |-> <<"is_version_0_allowed">>]
        ELSE [result |-> Ok(ArkUrlInfo(0, Some(components[1]), Some(components[2]),
                                       None, timestamp)),
              calls |-> <<"is_version_0_allowed">>]

\* parse_ark_id, the branch taken when parse_ark_v0 matched
parse_ark_id_v0(s, ark_id, components) ==
    LET project_id == to_uppercase(components[1])
        resource_id == components[2]
        submitted_timestamp == components[3]
        allowed == is_version_0_allowed(s, project_id)
        \* submitted_timestamp.filter(|ts| ts.len() >= 8)
        timestamp == IF submitted_timestamp.some /\ Len(submitted_timestamp.v) >= 8
                     THEN submitted_timestamp ELSE None
    IN  IF ~allowed.ok
        THEN [result |-> allowed, calls |-> <<"is_version_0_allowed">>]
        ELSE IF ~allowed.val
        THEN [result |-> ErrWith("Version0NotAllowed", ark_id),
              calls |-> <<"is_version_0_allowed">>]
        ELSE [result |-> Ok(ArkUrlInfo(0, Some(project_id), Some(resource_id),
                                       None, timestamp)),
              calls |-> <<"is_version_0_allowed">>]

WithCalls(before, r) == [result |-> r.result, calls |-> before \o r.calls]

\* A faulty parse_ark_id: an id whose v1 branch failed is tried again under
\* the v0 grammar.
parse_ark_id_retry_v0(s, ark_id) ==
    LET v1 == parse_ark_v1(s, ark_id)
        v0 == parse_ark_v0(s, ark_id)
        r1 == parse_ark_id_v1(s, ark_id, v1.v)
    IN  IF v1.some /\ r1.result.ok
        THEN WithCalls(<<"parse_ark_v1">>, r1)
        ELSE IF v0.some
        THEN WithCalls(<<"parse_ark_v1", "parse_ark_v0">>, parse_ark_id_v0(s, ark_id, v0.v))
        ELSE [result |-> ErrWith("InvalidArkId", ark_id),
              calls  |-> <<"parse_ark_v1", "parse_ark_v0">>]

\* ArkUrlInfoProcessor::parse_ark_id
parse_ark_id(s, ark_id) ==
    LET v1 == parse_ark_v1(s, ark_id)
        v0 == parse_ark_v0(s, ark_id)
    IN  IF v1.some
        THEN WithCalls(<<"parse_ark_v1">>, parse_ark_id_v1(s, ark_id, v1.v))
        ELSE IF v0.some
        THEN WithCalls(<<"parse_ark_v1", "parse_ark_v0">>, parse_ark_id_v0(s, ark_id, v0.v))
        ELSE [result |-> ErrWith("InvalidArkId", ark_id),
              calls  |-> <<"parse_ark_v1", "parse_ark_v0">>]

-----------------------------------------------------------------------------
(* Redirect generation.  A substitution map (HashMap<String, String>) is a *)
(* function from key names to strings.                                     *)

EmptyDict == [k \in {} |-> <<>>]

\* HashMap::insert: a present key is overwritten
Insert(dict, k, v) == [x \in (DOMAIN dict) \cup {k} |-> IF x = k THEN v ELSE dict[x]]

InsertSome(dict, k, opt) == IF opt.some THEN Insert(dict, k, opt.v) ELSE dict

\* The keys a substitution map can hold, as written in a placeholder.
KeyText ==
    [url_version  |-> <<"u", "r", "l", "_", "v", "e", "r", "s", "i", "o", "n">>,
     project_id   |-> <<"p", "r", "o", "j", "e", "c", "t", "_", "i", "d">>,
     resource_id  |-> <<"r", "e", "s", "o", "u", "r", "c", "e", "_", "i", "d">>,
     value_id     |-> <<"v", "a", "l", "u", "e", "_", "i", "d">>,
     timestamp    |-> <<"t", "i", "m", "e", "s", "t", "a", "m", "p">>,
     host         |-> <<"h", "o", "s", "t">>,
     project_host |-> <<"p", "r", "o", "j", "e", "c", "t", "_", "h", "o", "s", "t">>,
     resource_iri |-> <<"r", "e", "s", "o", "u", "r", "c", "e", "_", "i", "r", "i">>,
     project_iri  |-> <<"p", "r", "o", "j", "e", "c", "t", "_", "i", "r", "i">>]

\* ArkUrlInfo::to_template_dict
to_template_dict(info) ==
    InsertSome(InsertSome(InsertSome(InsertSome(
        Insert(EmptyDict, "url_version", ToDecimal(info.url_version)),
        "project_id", info.project_id),
        "resource_id", info.resource_id),
        "value_id", info.value_id),
        "timestamp", info.timestamp)

\* ArkUrlInfo::get_timestamp: a version 0 timestamp gets the time appended
get_timestamp(info) ==
    IF info.url_version = 0 /\ info.timestamp.some
    THEN Some(info.timestamp.v \o <<"T", "0", "0", "0", "0", "0", "0", "Z">>)
    ELSE info.timestamp

\* A faulty is_project_level that looks at the value id.
is_project_level_no_value(info) == ~info.value_id.some

\* ArkUrlInfo::is_project_level
is_project_level(info) == ~info.resource_id.some

is_resource_level(info) == info.resource_id.some /\ ~info.value_id.some

is_value_level(info) == info.value_id.some

has_timestamp(info) == info.timestamp.some

is_version_0(info) == info.url_version = 0

\* ConfigurationAdapter::get_top_level_redirect_url: unwrap_or_default()
get_top_level_redirect_url(s) ==
    IF "TopLevelObjectUrl" \in DOMAIN s.default_config
    THEN s.default_config["TopLevelObjectUrl"]
    ELSE <<>>

\* ConfigurationAdapter::get_project_template
get_project_template(s, project_id, template_name) ==
    LET config == get_project_config(s, project_id)
    IN  IF config.some /\ ConfigGet(config.v, template_name).some
        THEN Ok(ConfigGet(config.v, template_name).v)
        ELSE ErrWith("TemplateNotFound", template_name)

\* ConfigurationAdapter::get_project_host
get_project_host(s, project_id) ==
    LET config == get_project_config(s, project_id)
    IN  IF config.some /\ ConfigGet(config.v, "ProjectHost").some
        THEN Ok(ConfigGet(config.v, "ProjectHost").v)
        ELSE IF "ProjectHost" \in DOMAIN s.default_config
        THEN Ok(s.default_config["ProjectHost"])
        ELSE Err("ConfigurationError")

\* The first position at which pat occurs in text, 0 if it does not.
FindText(text, pat) ==
    LET starts == {i \in 1..(Len(text) - Len(pat) + 1) :
                      SubSeq(text, i, i + Len(pat) - 1) = pat}
    IN  IF starts = {} THEN 0
        ELSE CHOOSE i \in starts : \A j \in starts : i <= j

\* str::replace: every non-overlapping occurrence of pat, left to right; the
\* inserted text is not scanned again.
RECURSIVE ReplaceAll(_, _, _)
ReplaceAll(text, pat, by) ==
    LET i == FindText(text, pat)
    IN  IF i = 0 \/ Len(pat) = 0 THEN text
        ELSE SubSeq(text, 1, i - 1) \o by
             \o ReplaceAll(SubSeq(text, i + Len(pat), Len(text)), pat, by)

\* One loop of substitute: the keys of values, visited in the given order.
RECURSIVE ReplacePass(_, _, _, _, _)
ReplacePass(text, values, order, braces, n) ==
    IF n > Len(order) THEN text
    ELSE LET key == order[n]
             placeholder == IF braces THEN <<"$", "{">> \o KeyText[key] \o <<"}">>
                            ELSE <<"$">> \o KeyText[key]
         IN  IF key \in DOMAIN values
             THEN ReplacePass(ReplaceAll(text, placeholder, values[key]),
                              values, order, braces, n + 1)
             ELSE ReplacePass(text, values, order, braces, n + 1)

\* TemplateAdapter::substitute.  order is the order in which the HashMap
\* yields its entries, which the standard library leaves unspecified.
substitute(template, values, order) ==
    Ok(ReplacePass(ReplacePass(template, values, order, TRUE, 1),
                   values, order, FALSE, 1))

\* The printable ASCII characters, from 0x20 to 0x7E (the grave accent, which
\* a TLA+ string cannot hold, is held by its name and matches no character).
AsciiPrintable ==
    <<" ", "!", "\"", "#", "$", "%", "&">> \o <<"'">> \o <<"(", ")", "*", "+", ",", "-", ".", "/", "0", "1", "2", "3", "4", "5", "6", "7", "8", "9", ":", ";", "<", "=", ">", "?", "@">>
    \o UpperLetters \o <<"[", "\\", "]", "^", "_", "grave">> \o LowerLetters
    \o <<"{", "|", "}", "~">>

AsciiCode(ch) == 31 + IndexIn(AsciiPrintable, ch)

HexUpper == <<"0", "1", "2", "3", "4", "5", "6", "7", "8", "9", "A", "B", "C", "D", "E", "F">>

\* urlencoding::encode on one character: unreserved characters are kept,
\* every other one becomes %XX.
EncodeChar(ch) ==
    IF IsAlnum(ch) \/ ch \in {"-", "_", ".", "~"} THEN <<ch>>
    ELSE <<"%", HexUpper[(AsciiCode(ch) \div 16) + 1], HexUpper[(AsciiCode(ch) % 16) + 1]>>

\* The characters are encoded one by one, left to right; the text is
\* processed in halves.
RECURSIVE EncodeString(_)
EncodeString(text) ==
    IF text = <<>> THEN <<>>
    ELSE IF Len(text) = 1 THEN EncodeChar(text[1])
    ELSE EncodeString(SubSeq(text, 1, Len(text) \div 2))
         \o EncodeString(SubSeq(text, (Len(text) \div 2) + 1, Len(text)))

\* TemplateAdapter::url_encode
url_encode(input) == Ok(EncodeString(input))

\* The length of 16 bytes in unpadded base64.
UUID_BASE64_LENGTH == 22

RECURSIVE DigestSum(_, _)
DigestSum(input, n) ==
    IF n > Len(input) THEN 0
    ELSE (AsciiCode(input[n]) * n + DigestSum(input, n + 1)) % BASE64URL_ALPHABET_LENGTH

\* UuidGenerationAdapter::generate_v5_uuid.  SHA-1 is abstracted by a small
\* digest of the input; the output has the shape of the real one: 22
\* characters of the URL-safe base64 alphabet, fixed by the input.
generate_v5_uuid(input) ==
    Ok([k \in 1..UUID_BASE64_LENGTH |->
          BASE64URL_ALPHABET[(((DigestSum(input, 1) + 1) * k + Len(input)) % BASE64URL_ALPHABET_LENGTH) + 1]])

\* A faulty template selection that looks at the resource id before the
\* value id.
determine_redirect_template_resource_first(info) ==
    IF ~info.resource_id.some THEN Ok("DSPProjectRedirectUrl")
    ELSE IF has_timestamp(info) THEN Ok("DSPResourceVersionRedirectUrl")
    ELSE Ok("DSPResourceRedirectUrl")

\* ArkUrlInfoProcessor::determine_redirect_template
determine_redirect_template(info) ==
    LET levels == <<is_project_level(info), is_resource_level(info),
                    is_value_level(info)>>
    IN  IF levels = <<TRUE, FALSE, FALSE>> THEN Ok("DSPProjectRedirectUrl")
        ELSE IF levels = <<FALSE, TRUE, FALSE>> /\ ~has_timestamp(info)
        THEN Ok("DSPResourceRedirectUrl")
        ELSE IF levels = <<FALSE, TRUE, FALSE>> /\ has_timestamp(info)
        THEN Ok("DSPResourceVersionRedirectUrl")
        ELSE IF levels = <<FALSE, FALSE, TRUE>> /\ ~has_timestamp(info)
        THEN Ok("DSPValueRedirectUrl")
        ELSE IF levels = <<FALSE, FALSE, TRUE>> /\ has_timestamp(info)
        THEN Ok("DSPValueVersionRedirectUrl")
        ELSE Err("RedirectTemplateUndetermined")

\* A faulty generate_resource_iri: the template is looked up before the
\* project id is asked for.
generate_resource_iri_lookup_first(s, info, order) ==
    LET project_id == info.project_id.v
        template   == get_project_template(s, project_id, "DSPResourceIri")
        host       == get_project_template(s, project_id, "Host")
        uuid_v5    == generate_v5_uuid(info.resource_id.v)
        with_host  == Insert(to_template_dict(info), "host", host.val)
    IN  IF ~template.ok THEN template
        ELSE IF ~info.project_id.some THEN Err("ProjectIdRequired")
        ELSE IF ~host.ok THEN host
        ELSE IF ~is_version_0(info) THEN substitute(template.val, with_host, order)
        ELSE IF ~info.resource_id.some THEN Err("ConfigurationError")
        ELSE IF ~uuid_v5.ok THEN uuid_v5
        ELSE substitute(template.val, Insert(with_host, "resource_id", uuid_v5.val), order)

\* ArkUrlInfoProcessor::generate_resource_iri
generate_resource_iri(s, info, order) ==
    LET project_id == info.project_id.v
        template   == get_project_template(s, project_id, "DSPResourceIri")
        host       == get_project_template(s, project_id, "Host")
        uuid_v5    == generate_v5_uuid(info.resource_id.v)
        with_host  == Insert(to_template_dict(info), "host", host.val)
    IN  IF ~info.project_id.some THEN Err("ProjectIdRequired")
        ELSE IF ~template.ok THEN template
        ELSE IF ~host.ok THEN host
        ELSE IF ~is_version_0(info) THEN substitute(template.val, with_host, order)
        ELSE IF ~info.resource_id.some THEN Err("ConfigurationError")
        ELSE IF ~uuid_v5.ok THEN uuid_v5
        ELSE substitute(template.val, Insert(with_host, "resource_id", uuid_v5.val), order)

\* PyArkUrlInfo::to_resource_iri: the result of generate_resource_iri and
\* the configuration and port calls it made, in order.
to_resource_iri(s, info, order) ==
    LET project_id == info.project_id.v
        c1 == <<"get_project_template">>
        c2 == c1 \o <<"get_project_template">>
        c3 == c2 \o <<"generate_v5_uuid">>
    IN  [result |-> generate_resource_iri(s, info, order),
         calls  |-> IF ~info.project_id.some THEN <<>>
                    ELSE IF ~get_project_template(s, project_id, "DSPResourceIri").ok THEN c1
                    ELSE IF ~get_project_template(s, project_id, "Host").ok THEN c2
                    ELSE IF ~is_version_0(info) THEN c2 \o <<"substitute">>
                    ELSE IF ~info.resource_id.some THEN c2
                    ELSE IF ~generate_v5_uuid(info.resource_id.v).ok THEN c3
                    ELSE c3 \o <<"substitute">>]

\* ArkUrlInfoProcessor::generate_resource_iri_for_template
generate_resource_iri_for_template(s, info, template_dict, order) ==
    LET template == get_project_template(s, info.project_id.v, "DSPResourceIri")
    IN  IF ~info.project_id.some THEN Err("ProjectIdRequired")
        ELSE IF ~template.ok THEN template
        ELSE substitute(template.val, template_dict, order)

\* ArkUrlInfoProcessor::generate_project_iri_for_template
generate_project_iri_for_template(s, info, template_dict, order) ==
    LET template == get_project_template(s, info.project_id.v, "DSPProjectIri")
    IN  IF ~info.project_id.some THEN Err("ProjectIdRequired")
        ELSE IF ~template.ok THEN template
        ELSE substitute(template.val, template_dict, order)

\* str::split('/').next_back()
LastSegment(text) == Split(text, "/")[Len(Split(text, "/"))]

\* What a redirect generation leaves behind: its result, the template name
\* selected, the substitution map handed to the final substitute, and the
\* calls made in order.
Generated(result, template_name, dict, calls) ==
    [result |-> result, template_name |-> template_name, dict |-> dict, calls |-> calls]

\* ArkUrlInfoProcessor::generate_dsp_redirect_url
generate_dsp_redirect_url(s, info, order) ==
    LET project_id    == info.project_id.v
        template_name == determine_redirect_template(info)
        template      == get_project_template(s, project_id, template_name.val)
        host          == get_project_template(s, project_id, "Host")
        dict1         == Insert(to_template_dict(info), "host", host.val)
        legacy_iri    == generate_resource_iri(s, info, order)
        dict2         == IF is_version_0(info)
                         THEN Insert(dict1, "resource_id", LastSegment(legacy_iri.val))
                         ELSE dict1
        project_host  == get_project_host(s, project_id)
        dict3         == IF is_project_level(info)
                         THEN Insert(dict2, "project_host", project_host.val)
                         ELSE dict2
        resource_iri  == generate_resource_iri_for_template(s, info, dict3, order)
        project_iri   == generate_project_iri_for_template(s, info, dict3, order)
        dict4         == Insert(Insert(dict3, "resource_iri", url_encode(resource_iri.val).val),
                                "project_iri", url_encode(project_iri.val).val)
        c1 == <<"determine_redirect_template">>
        c2 == c1 \o <<"get_project_template">>
        c3 == c2 \o <<"get_project_template">>
        c4 == IF is_version_0(info) THEN c3 \o <<"generate_resource_iri">> ELSE c3
        c5 == IF is_project_level(info) THEN c4 \o <<"get_project_host">> ELSE c4
        c6 == c5 \o <<"generate_resource_iri_for_template">>
        c7 == c6 \o <<"generate_project_iri_for_template">>
        c8 == c7 \o <<"url_encode", "url_encode", "substitute">>
    IN  IF ~info.project_id.some
        THEN Generated(Err("ProjectIdRequired"), Pending, EmptyDict, <<>>)
        ELSE IF ~template_name.ok
        THEN Generated(template_name, template_name, EmptyDict, c1)
        ELSE IF ~template.ok
        THEN Generated(template, template_name, EmptyDict, c2)
        ELSE IF ~host.ok
        THEN Generated(host, template_name, EmptyDict, c3)
        ELSE IF is_version_0(info) /\ ~legacy_iri.ok
        THEN Generated(legacy_iri, template_name, EmptyDict, c4)
        ELSE IF is_project_level(info) /\ ~project_host.ok
        THEN Generated(project_host, template_name, EmptyDict, c5)
        ELSE IF ~resource_iri.ok
        THEN Generated(resource_iri, template_name, EmptyDict, c6)
        ELSE IF ~project_iri.ok
        THEN Generated(project_iri, template_name, EmptyDict, c7)
        ELSE Generated(substitute(template.val, dict4, order), template_name, dict4, c8)

\* ArkUrlInfoProcessor::generate_redirect_url
\* A faulty generate_redirect_url: the top-level URL is treated as a template.
generate_redirect_url_substituted(s, info, order) ==
    IF ~info.project_id.some
    THEN Generated(substitute(get_top_level_redirect_url(s), to_template_dict(info), order),
                   Pending, EmptyDict, <<"get_top_level_redirect_url">>)
    ELSE generate_dsp_redirect_url(s, info, order)

generate_redirect_url(s, info, order) ==
    IF ~info.project_id.some
    THEN Generated(Ok(get_top_level_redirect_url(s)), Pending, EmptyDict,
                   <<"get_top_level_redirect_url">>)
    ELSE generate_dsp_redirect_url(s, info, order)

-----------------------------------------------------------------------------
(* Building ARK ids: core/use_cases/ark_url_formatter.rs and the functions *)
(* it calls.                                                               *)

\* parsing.rs resource_iri_regex: ^http://rdfh.ch/([0-9A-Fa-f]{4})/([A-Za-z0-9_-]+)$
\* (the '.' of the pattern is not escaped and matches any one character)
resource_iri_regex(text) ==
    LET head == <<"h", "t", "t", "p", ":", "/", "/", "r", "d", "f", "h">>
        segs == Split(SubSeq(text, Len(head) + 5, Len(text)), "/")
    IN  IF /\ Len(text) >= Len(head) + 4
           /\ StartsWith(text, head)
           /\ SubSeq(text, Len(head) + 2, Len(head) + 4) = <<"c", "h", "/">>
           /\ Len(segs) = 2
           /\ Len(segs[1]) = 4 /\ AllHexDigits(segs[1])
           /\ segs[2] # <<>> /\ \A i \in 1..Len(segs[2]) : InAlphabet(segs[2][i])
        THEN Some(<<Some(segs[1]), Some(segs[2])>>)
        ELSE None

\* CompiledRegexes::match_resource_iri
match_resource_iri(text) ==
    LET captures == resource_iri_regex(text)
    IN  IF ~captures.some THEN None
        ELSE Some(<<IF captures.v[1].some THEN captures.v[1].v ELSE <<>>,
                    IF captures.v[2].some THEN captures.v[2].v ELSE <<>>>>)

\* SettingsConfigAdapter::match_resource_iri
config_match_resource_iri(resource_iri) ==
    IF match_resource_iri(resource_iri).some
    THEN Ok(match_resource_iri(resource_iri).v)
    ELSE ErrWith("InvalidResourceIri", resource_iri)

validate_timestamp(timestamp) ==
    IF timestamp = <<>> THEN ErrWith("InvalidTimestamp", timestamp) ELSE Ok(<<>>)

validate_project_id(project_id) ==
    IF project_id = <<>> THEN ErrWith("InvalidProjectId", project_id) ELSE Ok(<<>>)

validate_resource_id(resource_id) ==
    IF resource_id = <<>> THEN ErrWith("InvalidResourceId", resource_id) ELSE Ok(<<>>)

\* A faulty escaper that appends the check digit and leaves '-' alone.
add_check_digit_no_escape(uuid) ==
    LET check_digit == calculate_check_digit(uuid)
    IN  IF ~check_digit.ok THEN Err("PyValueError")
        ELSE Ok(Append(uuid, check_digit.val))

\* src/uuid_processing.rs add_check_digit_and_escape_internal, which calls
\* calculate_check_digit of base64url_ckeck_digit.rs
add_check_digit_and_escape_internal(uuid) ==
    LET check_digit == legacy_calculate_check_digit(uuid)
    IN  IF ~check_digit.ok THEN Err("PyValueError")
        ELSE Ok(ReplaceChar(Append(uuid, check_digit.val), "-", "="))

\* format_ark_id
format_ark_id(ark_naan, dsp_ark_version, project_id, escaped_resource_id, timestamp) ==
    <<"a", "r", "k", ":", "/">> \o ark_naan \o <<"/">> \o dsp_ark_version \o <<"/">> \o project_id
    \o <<"/">> \o escaped_resource_id
    \o (IF timestamp.some THEN <<".">> \o timestamp.v ELSE <<>>)

\* A faulty format_ark_url that adds a check digit to the resource segment.
format_ark_url_checked(params) ==
    (IF params.use_https THEN <<"h", "t", "t", "p", "s">> ELSE <<"h", "t", "t", "p">>)
    \o <<":", "/", "/">> \o params.external_host \o <<"/", "a", "r", "k", ":", "/">> \o params.ark_naan
    \o <<"/">> \o params.dsp_ark_version \o <<"/">> \o params.project_id
    \o <<"/">> \o params.resource_id
    \o (IF calculate_check_digit(params.resource_id).ok
        THEN <<calculate_check_digit(params.resource_id).val>> ELSE <<>>)
    \o (IF params.value_id.some THEN <<"/">> \o params.value_id.v ELSE <<>>)
    \o (IF params.timestamp.some THEN <<".">> \o params.timestamp.v ELSE <<>>)

\* core/domain/ark_url_formatter.rs format_ark_url; resource_id and
\* value_id are the fields escaped_resource_id_with_check_digit and
\* escaped_value_id_with_check_digit of ArkUrlParams.
format_ark_url(params) ==
    (IF params.use_https THEN <<"h", "t", "t", "p", "s">> ELSE <<"h", "t", "t", "p">>)
    \o <<":", "/", "/">> \o params.external_host \o <<"/", "a", "r", "k", ":", "/">> \o params.ark_naan
    \o <<"/">> \o params.dsp_ark_version \o <<"/">> \o params.project_id
    \o <<"/">> \o params.resource_id
    \o (IF params.value_id.some THEN <<"/">> \o params.value_id.v ELSE <<>>)
    \o (IF params.timestamp.some THEN <<".">> \o params.timestamp.v ELSE <<>>)

\* ArkUrlFormatterService::format_ark_url, with SettingsConfigAdapter's
\* get_external_host and get_use_https_proxy
service_format_ark_url(s, project_id, resource_id_with_check_digit, value_id_with_check_digit, timestamp) ==
    LET external_host == ConfigGet(s.ark_config, "ArkExternalHost")
        use_https     == get_boolean(s.ark_config, "ArkHttpsProxy")
    IN  IF ~validate_project_id(project_id).ok THEN validate_project_id(project_id)
        ELSE IF resource_id_with_check_digit = <<>>
        THEN ErrWith("InvalidResourceId", resource_id_with_check_digit)
        ELSE IF timestamp.some /\ ~validate_timestamp(timestamp.v).ok
        THEN validate_timestamp(timestamp.v)
        ELSE IF ~external_host.some THEN Err("MissingConfiguration")
        ELSE IF ~use_https.ok THEN Err("MissingConfiguration")
        ELSE Ok(format_ark_url(
                 [use_https |-> use_https.val, external_host |-> external_host.v,
                  ark_naan |-> s.ark_naan, dsp_ark_version |-> ToDecimal(s.dsp_ark_version),
                  project_id |-> project_id, resource_id |-> resource_id_with_check_digit,
                  value_id |-> value_id_with_check_digit, timestamp |-> timestamp]))

\* ArkUrlFormatterService::resource_iri_to_ark_id; get_ark_naan and
\* get_dsp_ark_version read the loaded settings.
resource_iri_to_ark_id(s, resource_iri, timestamp) ==
    LET matched     == config_match_resource_iri(resource_iri)
        project_id  == matched.val[1]
        resource_id == matched.val[2]
        escaped_resource_id == add_check_digit_and_escape_internal(resource_id)
    IN  IF ~matched.ok THEN matched
        ELSE IF ~validate_project_id(project_id).ok THEN validate_project_id(project_id)
        ELSE IF ~validate_resource_id(resource_id).ok THEN validate_resource_id(resource_id)
        ELSE IF timestamp.some /\ ~validate_timestamp(timestamp.v).ok
        THEN validate_timestamp(timestamp.v)
        ELSE IF ~escaped_resource_id.ok
        THEN ErrWith("UuidProcessingError", escaped_resource_id.err)
        ELSE Ok(format_ark_id(s.ark_naan, ToDecimal(s.dsp_ark_version), project_id,
                              escaped_resource_id.val, timestamp))

-----------------------------------------------------------------------------
(* The settings the resolver runs with.                                    *)

\* The DSP ARK versions configured (Settings::validate rejects 0).
DspArkVersions == {1, 2}

\* The registry's DEFAULT section
DefaultConfig ==
    [TopLevelObjectUrl |-> <<"h", "t", "t", "p", ":", "/", "/", "d", ".", "c", "h">>,
     ProjectHost |-> <<"m", "e", "t", "a">>,
     Host |-> <<"a", "p", "p">>,
     DSPResourceIri |-> <<"h", "t", "t", "p", ":", "/", "/", "r", ".", "c", "h", "/", "$", "p", "r", "o", "j", "e", "c", "t", "_", "i", "d", "/", "$", "r", "e", "s", "o", "u", "r", "c", "e", "_", "i", "d">>,
     DSPProjectIri |-> <<"h", "t", "t", "p", ":", "/", "/", "r", ".", "c", "h", "/", "p", "r", "o", "j", "e", "c", "t", "s", "/", "$", "p", "r", "o", "j", "e", "c", "t", "_", "i", "d">>,
     DSPProjectRedirectUrl |-> <<"h", "t", "t", "p", ":", "/", "/", "$", "p", "r", "o", "j", "e", "c", "t", "_", "h", "o", "s", "t", "/", "p", "/", "$", "p", "r", "o", "j", "e", "c", "t", "_", "i", "d">>,
     DSPResourceRedirectUrl |-> <<"h", "t", "t", "p", ":", "/", "/", "$", "h", "o", "s", "t", "/", "r", "/", "$", "r", "e", "s", "o", "u", "r", "c", "e", "_", "i", "r", "i">>,
     DSPResourceVersionRedirectUrl |-> <<"h", "t", "t", "p", ":", "/", "/", "$", "h", "o", "s", "t", "/", "r", "/", "$", "r", "e", "s", "o", "u", "r", "c", "e", "_", "i", "r", "i", "?", "v", "=", "$", "t", "i", "m", "e", "s", "t", "a", "m", "p">>,
     DSPValueRedirectUrl |-> <<"h", "t", "t", "p", ":", "/", "/", "$", "h", "o", "s", "t", "/", "r", "/", "$", "p", "r", "o", "j", "e", "c", "t", "_", "i", "d", "/", "$", "r", "e", "s", "o", "u", "r", "c", "e", "_", "i", "d", "/", "$", "v", "a", "l", "u", "e", "_", "i", "d">>,
     DSPValueVersionRedirectUrl |-> <<"h", "t", "t", "p", ":", "/", "/", "$", "{", "h", "o", "s", "t", "}", "/", "r", "/", "$", "{", "p", "r", "o", "j", "e", "c", "t", "_", "i", "d", "}", "/", "$", "{", "r", "e", "s", "o", "u", "r", "c", "e", "_", "i", "d", "}", "/", "$", "{", "v", "a", "l", "u", "e", "_", "i", "d", "}", "?", "v", "=", "$", "{", "t", "i", "m", "e", "s", "t", "a", "m", "p", "}">>]

\* The registry's project sections, keyed by the lower-cased section name
Projects ==
    (<<"0", "0", "0", "1">> :> [AllowVersion0 |-> <<"t", "r", "u", "e">>])
    @@ (<<"0", "0", "0", "2">> :> [AllowVersion0 |-> <<"f", "a", "l", "s", "e">>])
    @@ (<<"0", "0", "0", "3">> :> [Host |-> <<"a", "p", "p", "3">>])
    @@ (<<"0", "0", "0", "4">> :> [AllowVersion0 |-> <<"y", "e", "s">>])
    @@ (<<"0", "0", "0", "0", "1">> :> [AllowVersion0 |-> <<"t", "r", "u", "e">>])
    @@ (<<"0", "8", "0", "e">> :> [AllowVersion0 |-> <<"1">>,
                                   ProjectHost |-> <<"s", "a", "l", "s", "a", "h">>,
                                   DSPResourceIri |-> <<"h", "t", "t", "p", ":", "/", "/", "r", ".", "c", "h", "/", "r", "e", "s", "/", "$", "p", "r", "o", "j", "e", "c", "t", "_", "i", "d", "-", "$", "r", "e", "s", "o", "u", "r", "c", "e", "_", "i", "d">>])

StandardSettings(version) ==
    [ark_naan |-> <<"0", "0", "0", "0", "0">>,
     dsp_ark_version |-> version,
     default_config |-> DefaultConfig,
     projects |-> Projects]

SettingsSet == {StandardSettings(v) : v \in DspArkVersions}

-----------------------------------------------------------------------------
(* The ARK ids handed to the parser: well-formed and malformed ids of both *)
(* grammars, built from parts.                                             *)

VersionTokens ==
    {<<"1">>, <<"2">>, <<"0", "1">>, <<"0">>, <<"4", "2", "9", "4", "9", "6", "7", "2", "9", "5">>, <<"4", "2", "9", "4", "9", "6", "7", "2", "9", "6">>, <<"9", "9", "9", "9", "9", "9", "9", "9", "9", "9", "9">>}

\* project ids: registered (in both cases), unregistered, not hex, too short
V1ProjectTokens == {<<"0", "0", "0", "1">>, <<"0", "8", "0", "E">>, <<"0", "8", "0", "e">>, <<"0", "0", "0", "5">>, <<"0", "0", "g", "1">>, <<"0", "0", "1">>}

\* escaped resource segments: B= and a=bo carry a valid check digit (for B and
\* a-b), BB and AA do not, B-A is outside the segment's character class
V1ResourceTokens == {<<"B", "=">>, <<"a", "=", "b", "o">>, <<"B", "B">>, <<"A", "A">>, <<"B", "-", "A">>, <<>>}

\* escaped value segments: 9G is valid (for 9), xx is not
V1ValueTokens == {<<"9", "G">>, <<"x", "x">>}

\* what follows the path: nothing, or '.' and a timestamp (possibly empty)
V1Suffixes == {<<>>, <<".">>, <<".", "2", "0", "1", "8", "0", "6", "0", "4", "T", "0", "8", "5", "6", "2", "2", "Z">>}

V1Paths ==
    {v : v \in VersionTokens}
    \cup {v \o <<"/">> \o p : v \in VersionTokens, p \in V1ProjectTokens}
    \cup {v \o <<"/">> \o p \o <<"/">> \o r :
            v \in VersionTokens, p \in V1ProjectTokens, r \in V1ResourceTokens}
    \cup {v \o <<"/">> \o p \o <<"/">> \o r \o <<"/">> \o w :
            v \in VersionTokens, p \in V1ProjectTokens,
            r \in V1ResourceTokens, w \in V1ValueTokens}

V0ProjectTokens ==
    {<<"0", "0", "0", "1">>, <<"0", "0", "0", "2">>, <<"0", "0", "0", "3">>, <<"0", "0", "0", "4">>, <<"0", "8", "0", "e">>, <<"0", "8", "0", "E">>, <<"0", "0", "0", "5">>, <<"0", "0", "g", "1">>, <<"0", "0", "0", "0", "1">>}

V0ResourceTokens == {<<"7", "7", "9", "b">>, <<"a", "_", "b">>}

V0Suffixes ==
    {<<>>, <<".", "2", "0", "1", "9", "0", "1", "2", "9">>, <<".", "2", "0", "1", "9", "1", "1", "1">>, <<".", "2", "0", "1", "9", "0", "1">>, <<".", "2", "0", "1", "9", "1">>, <<".", "2", "0", "1", "9", "0", "1", "2", "9", "9">>, <<".", "2", "0", "1", "9", "0", "1", "2", "a">>}

V0Paths ==
    {p \o <<"-">> \o r \o <<"-", "6", "e">> : p \in V0ProjectTokens, r \in V0ResourceTokens}
    \cup {p \o <<"-">> \o r : p \in V0ProjectTokens, r \in V0ResourceTokens}

ArkIds ==
    {<<"a", "r", "k", ":", "/", "0", "0", "0", "0", "0", "/">> \o p \o t : p \in V1Paths, t \in V1Suffixes}
    \cup {<<"a", "r", "k", ":", "/", "0", "0", "0", "0", "0", "/">> \o p \o t : p \in V0Paths, t \in V0Suffixes}
    \cup {<<"a", "r", "k", ":", "/", "9", "9", "9", "9", "9", "/", "1", "/", "0", "0", "0", "1">>, <<"a", "r", "k", ":", "/", "9", "9", "9", "9", "9", "/", "0", "0", "0", "1", "-", "7", "7", "9", "b", "-", "6", "e">>, <<"h", "t", "t", "p", ":", "/", "/", "0", "0", "0", "0", "0", "/", "1", "/", "0", "0", "0", "1">>, <<>>}

-----------------------------------------------------------------------------
(* The codec specification: a client picks a code and calls the codec.     *)

NotCalled == [result |-> Pending, calls |-> <<>>]

\* No codec call is in progress
CodecIdle ==
    /\ code = <<>>
    /\ check = Pending
    /\ valid = Pending
    /\ escaped = Pending
    /\ unescaped = Pending
    /\ context = <<>>

\* No ARK id is being resolved
ParserIdle ==
    /\ settings = StandardSettings(1)
    /\ request = <<>>
    /\ parsed = NotCalled

\* The order in which the keys are visited when none is chosen, and the
\* orders a HashMap is observed to yield them in.
AllKeys ==
    <<"url_version", "project_id", "resource_id", "value_id", "timestamp",
      "host", "project_host", "resource_iri", "project_iri">>

Reverse(seq) == [i \in 1..Len(seq) |-> seq[Len(seq) + 1 - i]]

KeyOrders == {AllKeys, Reverse(AllKeys)}

NotGenerated == Generated(Pending, Pending, EmptyDict, <<>>)

\* No redirect is being generated
EngineIdle ==
    /\ inner = None
    /\ key_order = AllKeys
    /\ selected = Pending
    /\ redirect = NotGenerated
    /\ dsp_redirect = NotGenerated
    /\ standalone_iri = NotCalled

\* The arguments of format_ark_url
UrlParts(project_id, resource_id, value_id, timestamp) ==
    [project_id |-> project_id, resource_id |-> resource_id, value_id |-> value_id,
     timestamp |-> timestamp]

NoParts == UrlParts(<<>>, <<>>, None, None)

\* substitute has not been handed a template
TemplateIdle ==
    /\ tpl_tokens = <<>>
    /\ tpl_values = EmptyDict
    /\ tpl_result = Pending

\* No ARK id is being built
FormatterIdle ==
    /\ iri = <<>>
    /\ stamp = None
    /\ built = Pending
    /\ url_parts = NoParts
    /\ url = Pending

\* calculate_modulus and the legacy unescaper are not called
\* No code was copied
NotTranscribed == [kind |-> "none", code |-> <<>>, valid |-> Pending]

\* The legacy functions have not been called
NotComputed == [valid |-> Pending, check |-> Pending, escaped |-> Pending]

ModulusIdle ==
    /\ includes = FALSE
    /\ modulus = Pending
    /\ legacy_unescaped = Pending
    /\ transcribed = NotTranscribed
    /\ legacy = NotComputed

InitCodec ==
    /\ code \in Codes
    /\ check = Pending
    /\ valid = Pending
    /\ escaped = Pending
    /\ unescaped = Pending
    /\ context \in Contexts
    /\ ParserIdle
    /\ EngineIdle
    /\ FormatterIdle
    /\ ModulusIdle
    /\ tasks = <<>>
    /\ TemplateIdle

\* calculate_check_digit(code)
CalculateCheckDigit ==
    /\ IsPending(check)
    /\ check' = calculate_check_digit(code)
    /\ UNCHANGED <<code, valid, escaped, unescaped, context>>
    /\ UNCHANGED parserVars
    /\ UNCHANGED engineVars
    /\ UNCHANGED formatterVars
    /\ UNCHANGED modulusVars
    /\ UNCHANGED <<tasks, templateVars>>

\* is_valid(code + check digit), once the check digit was calculated
IsValidWithCheckDigit ==
    /\ check.ok
    /\ IsPending(valid)
    /\ valid' = is_valid(Append(code, check.val))
    /\ UNCHANGED <<code, check, escaped, unescaped, context>>
    /\ UNCHANGED parserVars
    /\ UNCHANGED engineVars
    /\ UNCHANGED formatterVars
    /\ UNCHANGED modulusVars
    /\ UNCHANGED <<tasks, templateVars>>

\* add_check_digit_and_escape(code)
AddCheckDigitAndEscape ==
    /\ IsPending(escaped)
    /\ escaped' = add_check_digit_and_escape(code)
    /\ UNCHANGED <<code, check, valid, unescaped, context>>
    /\ UNCHANGED parserVars
    /\ UNCHANGED engineVars
    /\ UNCHANGED formatterVars
    /\ UNCHANGED modulusVars
    /\ UNCHANGED <<tasks, templateVars>>

\* unescape_and_validate_uuid(context, escaped), on the escaper's own output
UnescapeAndValidateUuid ==
    /\ escaped.ok
    /\ IsPending(unescaped)
    /\ unescaped' = unescape_and_validate_uuid(context, escaped.val)
    /\ UNCHANGED <<code, check, valid, escaped, context>>
    /\ UNCHANGED parserVars
    /\ UNCHANGED engineVars
    /\ UNCHANGED formatterVars
    /\ UNCHANGED modulusVars
    /\ UNCHANGED <<tasks, templateVars>>

NextCodec ==
    \/ CalculateCheckDigit
    \/ IsValidWithCheckDigit
    \/ AddCheckDigitAndEscape
    \/ UnescapeAndValidateUuid

SpecCodec == InitCodec /\ [][NextCodec]_vars

-----------------------------------------------------------------------------
(* Claims about the codec (checked under SpecCodec).                       *)

AlphabetOnly(s) == \A i \in 1..Len(s) : InAlphabet(s[i])

AllZeroValue(s) == \A i \in 1..Len(s) : s[i] = "A"

\* C1 as stated: for every non-empty string s over the 64-symbol alphabet,
\* add_check_digit_and_escape(s) succeeds and unescape_and_validate_uuid of
\* its result returns exactly s, whatever the context.
C1_RoundTripEveryString ==
    (code # <<>> /\ AlphabetOnly(code))
        => /\ (~IsPending(escaped) => escaped.ok)
           /\ (~IsPending(unescaped) => unescaped.ok /\ unescaped.val = code)

\* C1 amended: the round trip holds, for any context, for every non-empty alphabet-only string
\* that is not made only of 'A' (value 0); for a string made only of 'A' the
\* weighted sum is 0 and add_check_digit_and_escape fails (InvalidCode), so
\* there is nothing to unescape.
C1_RoundTrip ==
    /\ (code # <<>> /\ AlphabetOnly(code) /\ ~AllZeroValue(code))
          => /\ (~IsPending(escaped) => escaped.ok)
             /\ (~IsPending(unescaped) => unescaped.ok /\ unescaped.val = code)
    /\ (code # <<>> /\ AllZeroValue(code) /\ ~IsPending(escaped))
          => (~escaped.ok /\ escaped.err = "CheckDigitError")

\* C1 witness: a code with a hyphen went through escape ('-' became '=') and
\* came back unchanged.
C1_Witness ==
    /\ Len(code) >= 2
    /\ \E i \in 1..Len(code) : code[i] = "-"
    /\ escaped.ok
    /\ \E i \in 1..Len(code) : escaped.val[i] = "="
    /\ unescaped.ok
    /\ unescaped.val = code
    /\ context # <<>>

\* C2: whenever calculate_check_digit(c) succeeds with character k,
\* is_valid(c + k) is true.
C2_CheckDigitValidates ==
    (check.ok /\ ~IsPending(valid)) => (valid.ok /\ valid.val = TRUE)

\* C2 witness: a check digit was calculated for a code of two or more
\* characters and the extended code was validated.
C2_Witness ==
    /\ Len(code) >= 2
    /\ check.ok
    /\ check.val # "A"
    /\ valid.ok
    /\ valid.val = TRUE

-----------------------------------------------------------------------------
(* The resolver specification: an ARK id arrives, PyArkUrlInfo::new parses *)
(* it, and to_redirect_url is called on the object it returned.            *)

Init ==
    /\ CodecIdle
    /\ settings \in SettingsSet
    /\ request \in ArkIds
    /\ parsed = NotCalled
    /\ inner = None
    /\ key_order \in KeyOrders
    /\ selected = Pending
    /\ redirect = NotGenerated
    /\ dsp_redirect = NotGenerated
    /\ standalone_iri = NotCalled
    /\ FormatterIdle
    /\ ModulusIdle
    /\ tasks = <<>>
    /\ TemplateIdle

\* PyArkUrlInfo::new(settings, request): parse_ark_id, whose ArkUrlInfo
\* becomes the object's inner on success
ParseArkId ==
    /\ IsPending(parsed.result)
    /\ parsed' = parse_ark_id(settings, request)
    /\ inner' = IF parsed'.result.ok THEN Some(parsed'.result.val) ELSE None
    /\ UNCHANGED <<settings, request, key_order, selected, redirect>>
    /\ UNCHANGED <<dsp_redirect, standalone_iri>>
    /\ UNCHANGED codecVars
    /\ UNCHANGED formatterVars
    /\ UNCHANGED modulusVars
    /\ UNCHANGED <<tasks, templateVars>>

\* ArkUrlInfoProcessor::generate_redirect_url(inner)
GenerateRedirectUrl ==
    /\ inner.some
    /\ IsPending(redirect.result)
    /\ redirect' = generate_redirect_url(settings, inner.v, key_order)
    /\ UNCHANGED <<inner, key_order, selected, dsp_redirect, standalone_iri>>
    /\ UNCHANGED parserVars
    /\ UNCHANGED codecVars
    /\ UNCHANGED formatterVars
    /\ UNCHANGED modulusVars
    /\ UNCHANGED <<tasks, templateVars>>

Next ==
    \/ ParseArkId
    \/ GenerateRedirectUrl

Spec == Init /\ [][Next]_vars

-----------------------------------------------------------------------------
(* Claims about parsing (checked under Spec).  The preconditions are read  *)
(* off the request text.                                                   *)

ParseReturned == ~IsPending(parsed.result)

ParseCalled(port) == \E i \in 1..Len(parsed.calls) : parsed.calls[i] = port

\* The request with its '.timestamp' suffix cut off, and the part after the
\* "ark:/NAAN/" prefix.
RequestPath ==
    IF FindChar(request, ".") = 0 THEN request
    ELSE SubSeq(request, 1, FindChar(request, ".") - 1)

RequestSegments ==
    Split(SubSeq(RequestPath, Len(ArkPrefix(settings.ark_naan)) + 1, Len(RequestPath)), "/")

\* The request structurally matches the v1 / the v0 grammar.
MatchesV1 == ark_path_regex(settings.ark_naan, RequestPath).some

MatchesV0 == v0_ark_path_regex(settings.ark_naan, request).some

\* The number written in the version segment is the configured version.
WrittenVersionIsConfigured ==
    StripLeadingZeros(RequestSegments[1]) = ToDecimal(settings.dsp_ark_version)

\* The version parse_ark_v1 reports is the configured version.
ReportedVersionIsConfigured ==
    parse_ark_v1(settings, request).v[1] = get_dsp_ark_version(settings)

\* The escaper's verdict on the resource and the value segment of a v1 id.
SegmentResult(i) == unescape_and_validate_uuid(request, RequestSegments[i])

HasSegment(i) == Len(RequestSegments) >= i

\* The escaper's error on the first segment that fails, "none" if none does.
FirstSegmentError ==
    IF HasSegment(3) /\ ~SegmentResult(3).ok THEN SegmentResult(3).err
    ELSE IF HasSegment(4) /\ ~SegmentResult(4).ok THEN SegmentResult(4).err
    ELSE "none"

\* C3 as stated: v1 is tried first, v0 only when v1 does not match; neither
\* matching gives InvalidArkId; a v1 match with a resource or value segment
\* that fails unescape_and_validate fails with that error, v0 never tried.
C3_DispatchAsStated ==
    ParseReturned =>
        /\ parsed.calls[1] = "parse_ark_v1"
        /\ (ParseCalled("parse_ark_v0") => ~MatchesV1)
        /\ ((~MatchesV1 /\ ~MatchesV0)
              => (~parsed.result.ok /\ parsed.result.err = "InvalidArkId"))
        /\ ((MatchesV1 /\ FirstSegmentError # "none")
              => /\ ~parsed.result.ok
                 /\ parsed.result.err = "UuidProcessingFailed"
                 /\ parsed.result.val = FirstSegmentError
                 /\ ~ParseCalled("parse_ark_v0"))

\* C3 amended: as stated, except that a v1 match with a failing segment fails
\* with the escaper's error only when the version parse_ark_v1 reports is the
\* configured one; when it is not, the parse fails with VersionMismatch
\* before any segment is validated.  In both cases v0 is never tried.
C3_Dispatch ==
    ParseReturned =>
        /\ parsed.calls[1] = "parse_ark_v1"
        /\ (ParseCalled("parse_ark_v0") => ~MatchesV1)
        /\ ((~MatchesV1 /\ ~MatchesV0)
              => (~parsed.result.ok /\ parsed.result.err = "InvalidArkId"))
        /\ ((MatchesV1 /\ FirstSegmentError # "none" /\ ReportedVersionIsConfigured)
              => /\ ~parsed.result.ok
                 /\ parsed.result.err = "UuidProcessingFailed"
                 /\ parsed.result.val = FirstSegmentError
                 /\ ~ParseCalled("parse_ark_v0"))
        /\ ((MatchesV1 /\ FirstSegmentError # "none" /\ ~ReportedVersionIsConfigured)
              => /\ ~parsed.result.ok
                 /\ parsed.result.err = "VersionMismatch"
                 /\ ~ParseCalled("unescape_and_validate_uuid")
                 /\ ~ParseCalled("parse_ark_v0"))

\* C3 witness: a v1 id with the configured version whose value segment has a
\* wrong check digit was rejected with the escaper's error.
C3_Witness ==
    /\ ParseReturned
    /\ MatchesV1
    /\ HasSegment(4)
    /\ SegmentResult(3).ok
    /\ ~SegmentResult(4).ok
    /\ parsed.result.err = "UuidProcessingFailed"
    /\ parsed.result.val = "InvalidArkId"

\* C4: for an id that matches the v1 grammar, parse succeeds only if the
\* number written in the version segment equals the configured version, and
\* for every other version digit string parse fails with VersionMismatch.
C4_VersionChecked ==
    (ParseReturned /\ MatchesV1) =>
        /\ (parsed.result.ok => WrittenVersionIsConfigured)
        /\ (~WrittenVersionIsConfigured
              => (~parsed.result.ok /\ parsed.result.err = "VersionMismatch"))

\* C5: every ArkUrlInfo parse returns has a resource id when it has a value
\* id, and has no value id when its version is 0.
C5_ParsedInvariants ==
    (ParseReturned /\ parsed.result.ok) =>
        /\ (parsed.result.val.value_id.some => parsed.result.val.resource_id.some)
        /\ (parsed.result.val.url_version = 0 => ~parsed.result.val.value_id.some)

\* C5 witness: parse returned a value-level identifier.
C5_Witness ==
    /\ ParseReturned
    /\ parsed.result.ok
    /\ parsed.result.val.value_id.some
    /\ parsed.result.val.resource_id.some
    /\ parsed.result.val.url_version # 0

\* The project id and the timestamp token written in a v0 request.
V0Body == SubSeq(request, Len(ArkPrefix(settings.ark_naan)) + 1, Len(request))

V0WrittenProject == Split(V0Body, "-")[1]

V0HasToken == FindChar(V0Body, ".") # 0

V0WrittenToken == SubSeq(V0Body, FindChar(V0Body, ".") + 1, Len(V0Body))

\* C9: when the v0 grammar matches, parse returns an ArkUrlInfo only if
\* is_version_0_allowed(project id) returns true; if it returns false parse
\* fails with Version0NotAllowed, and if the lookup fails parse returns that
\* failure.
C9_LegacyGate ==
    (ParseReturned /\ MatchesV0) =>
        LET allowed == is_version_0_allowed(settings, V0WrittenProject)
        IN  /\ (parsed.result.ok => (allowed.ok /\ allowed.val))
            /\ ((allowed.ok /\ ~allowed.val)
                  => (~parsed.result.ok /\ parsed.result.err = "Version0NotAllowed"))
            /\ (~allowed.ok => parsed.result = allowed)

\* C9 witness: a v0 id of a project whose AllowVersion0 value is not a
\* boolean was rejected with the lookup's ConfigurationError.
C9_Witness ==
    /\ ParseReturned
    /\ MatchesV0
    /\ ~is_version_0_allowed(settings, V0WrittenProject).ok
    /\ to_lowercase(V0WrittenProject) \in DOMAIN settings.projects
    /\ parsed.result.err = "ConfigurationError"

\* C10: after a successful v0 parse the project id is the written one in
\* upper case, and the timestamp is the written token when it has at least 8
\* characters and absent when it has fewer.
C10_LegacyNormalised ==
    (ParseReturned /\ MatchesV0 /\ parsed.result.ok) =>
        LET info == parsed.result.val
        IN  /\ info.project_id.some
            /\ Len(info.project_id.v) = Len(V0WrittenProject)
            /\ \A i \in 1..Len(V0WrittenProject) :
                   /\ IndexIn(LowerLetters, info.project_id.v[i]) = 0
                   /\ ToLowerChar(info.project_id.v[i]) = ToLowerChar(V0WrittenProject[i])
            /\ ((V0HasToken /\ Len(V0WrittenToken) >= 8)
                  => info.timestamp = Some(V0WrittenToken))
            /\ ((~V0HasToken \/ Len(V0WrittenToken) < 8) => ~info.timestamp.some)

\* C10 witness: a v0 id with a lower-case project id and a 7-digit timestamp
\* token was parsed.
C10_Witness ==
    /\ ParseReturned
    /\ MatchesV0
    /\ parsed.result.ok
    /\ \E i \in 1..Len(V0WrittenProject) : IndexIn(LowerLetters, V0WrittenProject[i]) # 0
    /\ V0HasToken
    /\ Len(V0WrittenToken) = 7
    /\ ~parsed.result.val.timestamp.some

-----------------------------------------------------------------------------
(* The engine specification: the processor is handed ArkUrlInfo values     *)
(* built with ArkUrlInfo::new, as its unit tests do.                       *)

\* Settings whose top-level URL and project host hold placeholder text.
PlaceholderSettings ==
    [StandardSettings(1) EXCEPT
        !.default_config.TopLevelObjectUrl = <<"h", "t", "t", "p", ":", "/", "/", "d", ".", "c", "h", "/", "v", "$", "u", "r", "l", "_", "v", "e", "r", "s", "i", "o", "n">>,
        !.default_config.ProjectHost = <<"$", "p", "r", "o", "j", "e", "c", "t", "_", "i", "d", ".", "m", "e", "t", "a">>]

\* Settings whose [DEFAULT] section has no TopLevelObjectUrl.
NoTopLevelSettings ==
    [StandardSettings(1) EXCEPT
        !.default_config = [k \in DOMAIN DefaultConfig \ {"TopLevelObjectUrl"} |->
                               DefaultConfig[k]]]

EngineSettings == {StandardSettings(1), PlaceholderSettings, NoTopLevelSettings}

EngineVersions == {0, 1}

EngineProjectIds == {None, Some(<<"0", "0", "0", "1">>), Some(<<"0", "8", "0", "E">>), Some(<<"0", "0", "0", "5">>)}

EngineResourceIds == {None, Some(<<"7", "7", "9", "b">>), Some(<<"c", "m", "f", "k", "1", "D", "M", "H", "R", "B", "i", "R", "4", "-", "_", "6", "H", "X", "p", "E", "F", "A">>)}

EngineValueIds == {None, Some(<<"p", "L", "l", "W", "4", "O", "D", "A", "S", "u", "m", "Z", "f", "Z", "F", "b", "J", "d", "p", "w", "1", "g">>)}

EngineTimestamps == {None, Some(<<"2", "0", "1", "9", "0", "1", "2", "9">>), Some(<<"2", "0", "1", "8", "0", "6", "0", "4", "T", "0", "8", "5", "6", "2", "2", "Z">>), Some(<<>>)}

EngineInfos ==
    {ArkUrlInfo(v, p, r, val, t) :
        v \in EngineVersions, p \in EngineProjectIds, r \in EngineResourceIds,
        val \in EngineValueIds, t \in EngineTimestamps}

InitEngine ==
    /\ CodecIdle
    /\ settings \in EngineSettings
    /\ request = <<>>
    /\ parsed = NotCalled
    /\ inner \in {Some(i) : i \in EngineInfos}
    /\ key_order \in KeyOrders
    /\ selected = Pending
    /\ redirect = NotGenerated
    /\ dsp_redirect = NotGenerated
    /\ standalone_iri = NotCalled
    /\ FormatterIdle
    /\ ModulusIdle
    /\ tasks = <<>>
    /\ TemplateIdle

\* ArkUrlInfoProcessor::determine_redirect_template(inner)
DetermineRedirectTemplate ==
    /\ inner.some
    /\ IsPending(selected)
    /\ selected' = determine_redirect_template(inner.v)
    /\ UNCHANGED <<inner, key_order, redirect, dsp_redirect, standalone_iri>>
    /\ UNCHANGED parserVars
    /\ UNCHANGED codecVars
    /\ UNCHANGED formatterVars
    /\ UNCHANGED modulusVars
    /\ UNCHANGED <<tasks, templateVars>>

\* PyArkUrlInfo::to_dsp_redirect_url
ToDspRedirectUrl ==
    /\ inner.some
    /\ IsPending(dsp_redirect.result)
    /\ dsp_redirect' = generate_dsp_redirect_url(settings, inner.v, key_order)
    /\ UNCHANGED <<inner, key_order, selected, redirect, standalone_iri>>
    /\ UNCHANGED <<parserVars, codecVars, formatterVars, modulusVars, tasks, templateVars>>

\* PyArkUrlInfo::to_resource_iri
ToResourceIri ==
    /\ inner.some
    /\ IsPending(standalone_iri.result)
    /\ standalone_iri' = to_resource_iri(settings, inner.v, key_order)
    /\ UNCHANGED <<inner, key_order, selected, redirect, dsp_redirect>>
    /\ UNCHANGED <<parserVars, codecVars, formatterVars, modulusVars, tasks, templateVars>>

NextEngine ==
    \/ DetermineRedirectTemplate
    \/ GenerateRedirectUrl
    \/ ToDspRedirectUrl
    \/ ToResourceIri

SpecEngine == InitEngine /\ [][NextEngine]_vars

-----------------------------------------------------------------------------
(* Claims about redirect generation.                                       *)

RedirectTemplateNames ==
    {"DSPProjectRedirectUrl", "DSPResourceRedirectUrl", "DSPResourceVersionRedirectUrl",
     "DSPValueRedirectUrl", "DSPValueVersionRedirectUrl"}

RedirectGenerated == ~IsPending(redirect.result)

\* C6 (under Spec): when a redirect is generated for an identifier that
\* parse returned and that has a project id, template selection returns one
\* of the five redirect template names and the generation does not fail with
\* RedirectTemplateUndetermined.
C6_ParsedSelectsTemplate ==
    (RedirectGenerated /\ parsed.result.ok /\ inner.v.project_id.some) =>
        /\ inner.v = parsed.result.val
        /\ redirect.template_name.ok
        /\ redirect.template_name.val \in RedirectTemplateNames
        /\ redirect.template_name = determine_redirect_template(parsed.result.val)
        /\ redirect.result.err # "RedirectTemplateUndetermined"

\* C6 witness: a redirect was generated for a parsed value-level identifier
\* with a timestamp.
C6_Witness ==
    /\ RedirectGenerated
    /\ parsed.result.ok
    /\ inner.v.project_id.some
    /\ inner.v.value_id.some
    /\ inner.v.timestamp.some
    /\ redirect.template_name.val = "DSPValueVersionRedirectUrl"

TemplateSelected == ~IsPending(selected)

C8_LegacyIdConverted ==
    (RedirectGenerated /\ redirect.result.ok /\ inner.v.project_id.some
        /\ inner.v.url_version = 0) =>
        /\ "resource_id" \in DOMAIN redirect.dict
        /\ redirect.dict["resource_id"] = generate_v5_uuid(inner.v.resource_id.v).val
        /\ \A k \in DOMAIN redirect.dict : redirect.dict[k] # inner.v.resource_id.v

-----------------------------------------------------------------------------
(* The formatter specification: an ARK id is built from a resource IRI and *)
(* the id built is handed to the parser, under the same settings.          *)

IriHeads == {<<"h", "t", "t", "p", ":", "/", "/", "r", "d", "f", "h", ".", "c", "h", "/">>, <<"h", "t", "t", "p", ":", "/", "/", "r", "d", "f", "h", "X", "c", "h", "/">>, <<"h", "t", "t", "p", "s", ":", "/", "/", "r", "d", "f", "h", ".", "c", "h", "/">>}

IriProjectTokens == {<<"0", "0", "0", "1">>, <<"0", "8", "0", "e">>, <<"0", "8", "G", "0">>, <<"0", "0", "1">>}

IriResourceTokens ==
    {<<"a", "-", "b">>, <<"A">>, <<"A", "A">>, <<"x", "_", "y">>, <<"c", "m", "f", "k", "1", "D", "M", "H", "R", "B", "i", "R", "4", "-", "_", "6", "H", "X", "p", "E", "F", "A">>, <<"a", ".", "b">>, <<>>}

ResourceIris ==
    {h \o p \o <<"/">> \o r : h \in IriHeads, p \in IriProjectTokens, r \in IriResourceTokens}

FormatterTimestamps == {None, Some(<<"2", "0", "1", "8", "0", "6", "0", "4", "T", "0", "8", "5", "6", "2", "2", "Z">>), Some(<<"1", ".", "5">>), Some(<<>>)}

InitFormatter ==
    /\ CodecIdle
    /\ settings \in SettingsSet
    /\ request = <<>>
    /\ parsed = NotCalled
    /\ EngineIdle
    /\ iri \in ResourceIris
    /\ stamp \in FormatterTimestamps
    /\ built = Pending
    /\ url_parts = NoParts
    /\ url = Pending
    /\ ModulusIdle
    /\ tasks = <<>>
    /\ TemplateIdle

\* ArkUrlFormatterService::resource_iri_to_ark_id(iri, stamp)
ResourceIriToArkId ==
    /\ IsPending(built)
    /\ built' = resource_iri_to_ark_id(settings, iri, stamp)
    /\ UNCHANGED <<iri, stamp, url_parts, url>>
    /\ UNCHANGED parserVars
    /\ UNCHANGED engineVars
    /\ UNCHANGED codecVars
    /\ UNCHANGED modulusVars
    /\ UNCHANGED <<tasks, templateVars>>

\* PyArkUrlInfo::new(settings, the ARK id built)
ParseBuiltArkId ==
    /\ built.ok
    /\ IsPending(parsed.result)
    /\ request' = built.val
    /\ parsed' = parse_ark_id(settings, built.val)
    /\ inner' = IF parsed'.result.ok THEN Some(parsed'.result.val) ELSE None
    /\ UNCHANGED <<settings, key_order, selected, redirect, dsp_redirect, standalone_iri>>
    /\ UNCHANGED codecVars
    /\ UNCHANGED formatterVars
    /\ UNCHANGED modulusVars
    /\ UNCHANGED <<tasks, templateVars>>

NextFormatter ==
    \/ ResourceIriToArkId
    \/ ParseBuiltArkId

SpecFormatter == InitFormatter /\ [][NextFormatter]_vars

-----------------------------------------------------------------------------
(* Claims about building ARK ids (under SpecFormatter).                    *)

\* The project id and the resource id written in the resource IRI.
IriSegments == Split(iri, "/")

IriAccepted == resource_iri_regex(iri).some

StampAccepted == ~stamp.some \/ stamp.v # <<>>

\* C11 as stated: for every resource IRI the pattern accepts, building the
\* ARK id succeeds and parsing the id built, under the same settings,
\* returns the IRI's project id and resource id.
C11_RoundTripAsStated ==
    (IriAccepted /\ StampAccepted) =>
        /\ (~IsPending(built) => built.ok)
        /\ (~IsPending(parsed.result) =>
               /\ parsed.result.ok
               /\ parsed.result.val.project_id = Some(IriSegments[4])
               /\ parsed.result.val.resource_id = Some(IriSegments[5]))

\* C11 amended: the round trip holds for every accepted resource IRI whose
\* resource id is not made only of 'A'; for a resource id made only of 'A'
\* the check digit cannot be calculated and building fails with
\* UuidProcessingError.
C11_RoundTrip ==
    (IriAccepted /\ StampAccepted) =>
        /\ (~IsPending(built) /\ ~AllZeroValue(IriSegments[5])) => built.ok
        /\ (~IsPending(built) /\ AllZeroValue(IriSegments[5]))
              => (~built.ok /\ built.err = "UuidProcessingError")
        /\ (~IsPending(parsed.result) =>
               /\ request = built.val
               /\ parsed.result.ok
               /\ parsed.result.val.project_id = Some(IriSegments[4])
               /\ parsed.result.val.resource_id = Some(IriSegments[5]))

\* C11 witness: an id built from an IRI whose resource id has a hyphen, with
\* a timestamp, was parsed back.
C11_Witness ==
    /\ IriAccepted
    /\ \E i \in 1..Len(IriSegments[5]) : IriSegments[5][i] = "-"
    /\ stamp.some
    /\ built.ok
    /\ parsed.result.ok
    /\ parsed.result.val.resource_id = Some(IriSegments[5])

-----------------------------------------------------------------------------
(* The check digit specification: each function of the codec is called on  *)
(* the code itself, which may be empty or hold characters outside the      *)
(* alphabet.                                                               *)

InitCheckDigit ==
    /\ code \in Codes
    /\ check = Pending
    /\ valid = Pending
    /\ escaped = Pending
    /\ unescaped = Pending
    /\ context \in Contexts
    /\ ParserIdle
    /\ EngineIdle
    /\ FormatterIdle
    /\ ModulusIdle
    /\ tasks = <<>>
    /\ TemplateIdle

\* is_valid(code)
IsValid ==
    /\ IsPending(valid)
    /\ valid' = is_valid(code)
    /\ UNCHANGED <<code, check, escaped, unescaped, context>>
    /\ UNCHANGED <<includes, modulus, legacy_unescaped, transcribed, legacy>>
    /\ UNCHANGED <<parserVars, engineVars, formatterVars, tasks, templateVars>>

\* calculate_modulus(code, includes_check_digit)
CalculateModulus ==
    /\ IsPending(modulus)
    /\ \E includes_check_digit \in BOOLEAN :
          /\ includes' = includes_check_digit
          /\ modulus' = calculate_modulus(code, includes_check_digit)
    /\ UNCHANGED <<legacy_unescaped, transcribed, legacy>>
    /\ UNCHANGED <<codecVars, parserVars, engineVars, formatterVars, tasks, templateVars>>

\* unescape_and_validate_uuid(context, code)
UnescapeAndValidateCode ==
    /\ IsPending(unescaped)
    /\ unescaped' = unescape_and_validate_uuid(context, code)
    /\ UNCHANGED <<code, check, valid, escaped, context>>
    /\ UNCHANGED <<parserVars, engineVars, formatterVars, modulusVars, tasks, templateVars>>

\* unescape_and_validate_uuid_internal(context, code)
UnescapeAndValidateUuidInternal ==
    /\ IsPending(legacy_unescaped)
    /\ legacy_unescaped' = unescape_and_validate_uuid_internal(context, code)
    /\ UNCHANGED <<includes, modulus, transcribed, legacy>>
    /\ UNCHANGED <<codecVars, parserVars, engineVars, formatterVars, tasks, templateVars>>

NextCheckDigit ==
    \/ IsValid
    \/ CalculateModulus
    \/ UnescapeAndValidateCode
    \/ UnescapeAndValidateUuidInternal

SpecCheckDigit == InitCheckDigit /\ [][NextCheckDigit]_vars

-----------------------------------------------------------------------------
(* Claims about the check digit functions (C12, C13 and C15 under          *)
(* SpecCheckDigit, C14 under SpecCodec).                                   *)

\* C12: is_valid never fails and returns a boolean; it returns false for
\* the empty string, for a string with a character outside the alphabet and
\* whenever calculate_modulus fails; it returns true exactly when
\* calculate_modulus(code, true) is 0.
C12_IsValidTotal ==
    ~IsPending(valid) =>
        /\ valid.ok
        /\ valid.val \in BOOLEAN
        /\ (code = <<>> => valid.val = FALSE)
        /\ (~AlphabetOnly(code) => valid.val = FALSE)
        /\ (~calculate_modulus(code, TRUE).ok => valid.val = FALSE)
        /\ (valid.val = TRUE <=> calculate_modulus(code, TRUE) = Ok(0))

\* C12 witnesses: is_valid answered false for a code on which the modulus
\* fails, and true for a code whose modulus is 0.
C12_Witness ==
    /\ ~IsPending(valid)
    /\ valid = Ok(FALSE)
    /\ ~AlphabetOnly(code)

C12_WitnessTrue ==
    /\ valid = Ok(TRUE)
    /\ code # <<>>

\* The sum the modulus is taken of: each character's alphabet value times
\* (length - i), i the 0-based index from the left.
RECURSIVE PositionalSum(_, _, _)
PositionalSum(s, length, i) ==
    IF i >= Len(s) THEN 0
    ELSE (IndexIn(BASE64URL_ALPHABET, s[i + 1]) - 1) * (length - i)
         + PositionalSum(s, length, i + 1)

StatedLength == IF includes THEN Len(code) ELSE Len(code) + 1

\* C13: calculate_modulus(code, includes) is the positional sum mod 64,
\* with length len(code) when the check digit is included and len(code)+1
\* otherwise; it fails with InvalidCode exactly when the sum is 0, which for
\* a code over the alphabet happens only when every character is 'A' (a
\* character outside the alphabet fails with InvalidCharacter instead).
C13_Modulus ==
    ~IsPending(modulus) =>
        /\ AlphabetOnly(code) =>
              LET total == PositionalSum(code, StatedLength, 0)
              IN  /\ modulus.ok <=> total # 0
                  /\ modulus.ok => modulus.val = total % 64
                  /\ ~modulus.ok => modulus.err = "InvalidCode"
                  /\ total = 0 <=> AllZeroValue(code)
        /\ ~AlphabetOnly(code) => (~modulus.ok /\ modulus.err = "InvalidCharacter")

\* C13 witness: a modulus was calculated for a code of several characters
\* without its check digit.
C13_Witness ==
    /\ modulus.ok
    /\ ~includes
    /\ Len(code) >= 2
    /\ modulus.val # 0

\* C14 as stated: add_check_digit_and_escape fails exactly when
\* calculate_check_digit fails, and for a code over the alphabet that
\* happens only when the code is empty.
C14_EscapeFailsOnlyOnEmpty ==
    ~IsPending(escaped) =>
        /\ escaped.ok <=> calculate_check_digit(code).ok
        /\ AlphabetOnly(code) => (~escaped.ok <=> code = <<>>)

\* C14 amended: add_check_digit_and_escape fails exactly when
\* calculate_check_digit fails; for a code over the alphabet that happens
\* when the code is empty or made only of 'A'. Every other code over the
\* alphabet is escaped to the code with its check digit, each '-' written
\* as '='.
C14_Escape ==
    ~IsPending(escaped) =>
        /\ escaped.ok <=> calculate_check_digit(code).ok
        /\ AlphabetOnly(code) => (~escaped.ok <=> AllZeroValue(code))
        /\ escaped.ok =>
              /\ Len(escaped.val) = Len(code) + 1
              /\ \A i \in 1..Len(code) :
                    escaped.val[i] = (IF code[i] = "-" THEN "=" ELSE code[i])
              /\ escaped.val[Len(code) + 1] =
                    (IF calculate_check_digit(code).val = "-" THEN "="
                     ELSE calculate_check_digit(code).val)

\* C14 witness: a code with a hyphen was escaped.
C14_Witness ==
    /\ escaped.ok
    /\ \E i \in 1..Len(code) : code[i] = "-"

\* C15: for an empty escaped segment both unescape_and_validate_uuid and
\* the legacy unescape_and_validate_uuid_internal fail with the empty
\* segment error, not with the invalid identifier error.
C15_EmptySegmentError ==
    code = <<>> =>
        /\ ~IsPending(unescaped) => (~unescaped.ok /\ unescaped.err = "EmptyUuid")
        /\ ~IsPending(legacy_unescaped)
              => (~legacy_unescaped.ok /\ legacy_unescaped.err = "Empty UUID in ARK ID")

-----------------------------------------------------------------------------
(* Claims about the top-level redirect, defaults and the visiting order    *)
(* (under SpecEngine).                                                     *)

HasTopLevelUrl == "TopLevelObjectUrl" \in DOMAIN settings.default_config

\* C16: for an identifier without project id the redirect is the
\* configuration's top-level redirect URL as it is; no template is
\* selected or fetched and nothing is substituted.
C16_TopLevelVerbatim ==
    (RedirectGenerated /\ ~inner.v.project_id.some) =>
        /\ redirect.result = Ok(get_top_level_redirect_url(settings))
        /\ HasTopLevelUrl => redirect.result.val = settings.default_config.TopLevelObjectUrl
        /\ IsPending(redirect.template_name)
        /\ redirect.dict = EmptyDict
        /\ redirect.calls = <<"get_top_level_redirect_url">>

\* C16 witness: a top-level URL holding placeholder text was returned for
\* an identifier without project id.
C16_Witness ==
    /\ RedirectGenerated
    /\ ~inner.v.project_id.some
    /\ redirect.result.ok
    /\ FindChar(redirect.result.val, "$") > 0

\* C17: no step replaces a failure by a default value; here: a redirect
\* for an identifier without project id fails when the configuration has no
\* top-level URL, and a redirect whose template or project configuration
\* is missing fails with TemplateNotFound.
C17_NoSilentDefault ==
    RedirectGenerated =>
        /\ (~inner.v.project_id.some /\ ~HasTopLevelUrl) => ~redirect.result.ok
        /\ (/\ inner.v.project_id.some
            /\ determine_redirect_template(inner.v).ok
            /\ ~get_project_template(settings, inner.v.project_id.v,
                                     determine_redirect_template(inner.v).val).ok)
              => (~redirect.result.ok /\ redirect.result.err = "TemplateNotFound")

\* C18: the redirect generated is the same whatever the order in which the
\* entries of the substitution map are visited.
C18_OrderIndependent ==
    RedirectGenerated =>
        \A other \in KeyOrders :
            generate_redirect_url(settings, inner.v, other).result = redirect.result

-----------------------------------------------------------------------------
(* The parallel specification: two Python threads each create a           *)
(* PyArkUrlInfo for their own ARK id and ask it for the redirect URL, with *)
(* the same settings.  A method of a PyO3 class runs as one step; each     *)
(* invocation builds its own processor, adapters and substitution map.     *)

ParallelArkIds ==
    {<<"a", "r", "k", ":", "/", "0", "0", "0", "0", "0", "/", "1">>, <<"a", "r", "k", ":", "/", "0", "0", "0", "0", "0", "/", "1", "/", "0", "0", "0", "1">>, <<"a", "r", "k", ":", "/", "0", "0", "0", "0", "0", "/", "1", "/", "0", "0", "0", "3", "/", "c", "m", "f", "k", "1", "D", "M", "H", "R", "B", "i", "R", "4", "=", "_", "6", "H", "X", "p", "E", "F", "A", "n">>,
     <<"a", "r", "k", ":", "/", "0", "0", "0", "0", "0", "/", "0", "0", "0", "1", "-", "7", "7", "9", "b", "9", "9", "9", "0", "a", "0", "c", "3", "f", "-", "6", "e">>, <<"a", "r", "k", ":", "/", "0", "0", "0", "0", "0", "/", "1", "/", "0", "0", "0", "5">>, <<"a", "r", "k", ":", "/", "0", "0", "0", "0", "0", "/", "2", "/", "0", "0", "0", "1">>,
     <<"h", "t", "t", "p", ":", "/", "/", "d", ".", "c", "h">>}

ParallelSettings == {StandardSettings(1), PlaceholderSettings}

\* One invocation: its ARK id, the order its substitution map is visited in,
\* and what PyArkUrlInfo::new and to_redirect_url returned to it.
Task(ark_id, order) ==
    [request |-> ark_id, order |-> order, parsed |-> NotCalled, inner |-> None,
     redirect |-> NotGenerated]

TaskIds == {1, 2}

\* A faulty PyArkUrlInfo whose parse result is kept in one place for all
\* invocations: the other invocation's result is read when there is one.
TaskInnerShared(ts, t) ==
    IF ts[3 - t].inner.some THEN ts[3 - t].inner ELSE ts[t].inner

\* PyArkUrlInfo.inner of invocation t
TaskInner(ts, t) == ts[t].inner

InitParallel ==
    /\ CodecIdle
    /\ settings \in ParallelSettings
    /\ request = <<>>
    /\ parsed = NotCalled
    /\ EngineIdle
    /\ FormatterIdle
    /\ ModulusIdle
    /\ tasks \in {<<Task(a, oa), Task(b, ob)>> :
                     a \in ParallelArkIds, b \in ParallelArkIds,
                     oa \in KeyOrders, ob \in KeyOrders}
    /\ tasks[1].request # tasks[2].request
    /\ TemplateIdle

\* PyArkUrlInfo::new(settings, ark_id) in invocation t (the arguments are
\* bound to their values before the call)
TaskNew(t) ==
    /\ IsPending(tasks[t].parsed.result)
    /\ \E text \in {tasks[t].request} :
       \E outcome \in {parse_ark_id(settings, text)} :
           tasks' = [tasks EXCEPT
                        ![t].parsed = outcome,
                        ![t].inner = IF outcome.result.ok THEN Some(outcome.result.val)
                                     ELSE None]
    /\ UNCHANGED <<codecVars, parserVars, engineVars, formatterVars, modulusVars, templateVars>>

\* PyArkUrlInfo::to_redirect_url in invocation t
TaskToRedirectUrl(t) ==
    /\ tasks[t].inner.some
    /\ IsPending(tasks[t].redirect.result)
    /\ \E held \in {TaskInner(tasks, t).v}, visiting \in {tasks[t].order} :
       \E generated \in {generate_redirect_url(settings, held, visiting)} :
           tasks' = [tasks EXCEPT ![t].redirect = generated]
    /\ UNCHANGED <<codecVars, parserVars, engineVars, formatterVars, modulusVars, templateVars>>

NextParallel ==
    \/ \E t \in TaskIds : TaskNew(t)
    \/ \E t \in TaskIds : TaskToRedirectUrl(t)

SpecParallel == InitParallel /\ [][NextParallel]_vars

-----------------------------------------------------------------------------
(* Claims about parallel invocations (under SpecParallel).                 *)

\* What an invocation returns when it runs alone, from start to end.
RunAlone(s, ark_id, order) ==
    LET outcome == parse_ark_id(s, ark_id)
    IN  [parsed   |-> outcome,
         redirect |-> IF outcome.result.ok
                      THEN generate_redirect_url(s, outcome.result.val, order)
                      ELSE NotGenerated]

TaskProgress(task) == <<IsPending(task.parsed.result), IsPending(task.redirect.result)>>

C19_NoSharedWrites ==
    [][\A t \in DOMAIN tasks :
          TaskProgress(tasks'[t]) # TaskProgress(tasks[t])
             => (tasks'[3 - t] = tasks[3 - t] /\ settings' = settings)]_vars

-----------------------------------------------------------------------------
(* Claims about the parsed timestamp (under Spec).                         *)

\* C20: the timestamp of every ArkUrlInfo that parse_ark_id returns is
\* absent or a non-empty string; for a version 0 identifier a present
\* timestamp has at least 8 characters.
C20_TimestampNonEmpty ==
    parsed.result.ok =>
        LET timestamp == parsed.result.val.timestamp
        IN  /\ timestamp.some => timestamp.v # <<>>
            /\ (parsed.result.val.url_version = 0 /\ timestamp.some)
                  => Len(timestamp.v) >= 8

-----------------------------------------------------------------------------
(* Claims about the parsed project id (under Spec).                        *)

\* C21: the project id of every ArkUrlInfo that parse_ark_id returns, under
\* either grammar, is absent or made of exactly 4 hexadecimal characters.
C21_ProjectIdFourHex ==
    parsed.result.ok =>
        LET project_id == parsed.result.val.project_id
        IN  project_id.some => (Len(project_id.v) = 4 /\ AllHexDigits(project_id.v))

-----------------------------------------------------------------------------
(* Claims about the resource IRI (under SpecEngine).                       *)

DspRedirectGenerated == ~IsPending(dsp_redirect.result)

ResourceIriGenerated == ~IsPending(standalone_iri.result)

\* C22: for an identifier with a project id, the IRI that
\* generate_resource_iri returns is the resource_iri that redirect
\* generation computes (and then URL-encodes) for the same identifier,
\* also when a version 0 resource id was replaced by its v5 UUID.
C22_SameResourceIri ==
    (/\ DspRedirectGenerated
     /\ ResourceIriGenerated
     /\ inner.v.project_id.some
     /\ "resource_iri" \in DOMAIN dsp_redirect.dict) =>
        /\ standalone_iri.result.ok
        /\ url_encode(standalone_iri.result.val).val = dsp_redirect.dict["resource_iri"]

\* C25: for an identifier without project id, to_dsp_redirect_url and
\* generate_resource_iri fail with ProjectIdRequired, and no configuration
\* lookup or port call was made before.
C25_ProjectIdRequired ==
    (inner.some /\ ~inner.v.project_id.some) =>
        /\ DspRedirectGenerated =>
              /\ ~dsp_redirect.result.ok
              /\ dsp_redirect.result.err = "ProjectIdRequired"
              /\ dsp_redirect.calls = <<>>
        /\ ResourceIriGenerated =>
              /\ ~standalone_iri.result.ok
              /\ standalone_iri.result.err = "ProjectIdRequired"
              /\ standalone_iri.calls = <<>>

\* C25 witness: both functions were called for an identifier that has a
\* resource id and no project id.
C25_Witness ==
    /\ inner.some
    /\ ~inner.v.project_id.some
    /\ inner.v.resource_id.some
    /\ DspRedirectGenerated
    /\ ResourceIriGenerated

-----------------------------------------------------------------------------
(* The URL formatting specification: format_ark_url is handed segments     *)
(* that were prepared elsewhere, and the ARK id inside the URL is handed   *)
(* to the parser under the same settings.                                  *)

\* Settings with the [ark] values the formatter reads.
FormatSettings ==
    {[ark_naan |-> StandardSettings(v).ark_naan, dsp_ark_version |-> v,
      default_config |-> DefaultConfig, projects |-> Projects,
      ark_config |-> [ArkExternalHost |-> <<"a", "r", "k", ".", "c", "h">>, ArkHttpsProxy |-> proxy]] :
        v \in DspArkVersions, proxy \in {<<"t", "r", "u", "e">>, <<"f", "a", "l", "s", "e">>, <<"y", "e", "s">>}}

\* Segments with their check digit (escaped), one with a wrong last
\* character, and an empty one.
PreparedSegments ==
    {add_check_digit_and_escape(<<"a", "-", "b">>).val, add_check_digit_and_escape(<<"x", "_", "y">>).val,
     <<"a", "b", "c", "d">>, <<>>}

PreparedUrlParts ==
    {UrlParts(p, r, w, t) :
        p \in {<<"0", "0", "0", "1">>, <<"0", "8", "0", "e">>, <<>>},
        r \in PreparedSegments,
        w \in {None} \cup {Some(x) : x \in PreparedSegments},
        t \in {None, Some(<<"2", "0", "1", "8", "0", "6", "0", "4", "T", "0", "8", "5", "6", "2", "2", "Z">>), Some(<<>>)}}

InitFormatUrl ==
    /\ CodecIdle
    /\ settings \in FormatSettings
    /\ request = <<>>
    /\ parsed = NotCalled
    /\ EngineIdle
    /\ iri = <<>>
    /\ stamp = None
    /\ built = Pending
    /\ url_parts \in PreparedUrlParts
    /\ url = Pending
    /\ ModulusIdle
    /\ tasks = <<>>
    /\ TemplateIdle

\* ArkUrlFormatterService::format_ark_url(url_parts)
FormatArkUrl ==
    /\ IsPending(url)
    /\ url' = service_format_ark_url(settings, url_parts.project_id, url_parts.resource_id,
                                     url_parts.value_id, url_parts.timestamp)
    /\ UNCHANGED <<iri, stamp, built, url_parts>>
    /\ UNCHANGED <<parserVars, engineVars, codecVars, modulusVars, tasks, templateVars>>

\* The ARK id a URL holds: its text from ark:/ on.
ArkIdOf(text) == SubSeq(text, FindText(text, <<"a", "r", "k", ":", "/">>), Len(text))

\* PyArkUrlInfo::new(settings, the ARK id of the URL formatted)
ParseFormattedArkId ==
    /\ url.ok
    /\ IsPending(parsed.result)
    /\ \E text \in {ArkIdOf(url.val)} :
       \E outcome \in {parse_ark_id(settings, text)} :
          /\ request' = text
          /\ parsed' = outcome
          /\ inner' = IF outcome.result.ok THEN Some(outcome.result.val) ELSE None
    /\ UNCHANGED <<settings, key_order, selected, redirect, dsp_redirect, standalone_iri>>
    /\ UNCHANGED <<codecVars, formatterVars, modulusVars, tasks, templateVars>>

NextFormatUrl ==
    \/ FormatArkUrl
    \/ ParseFormattedArkId

SpecFormatUrl == InitFormatUrl /\ [][NextFormatUrl]_vars

-----------------------------------------------------------------------------
(* Claims about format_ark_url (under SpecFormatUrl).                      *)

\* The pieces of the formatted URL between the '/' characters, from the
\* NAAN on (the segments enumerated hold no '/').
UrlPieces == Split(ArkIdOf(url.val), "/")

ExpectedLast(segment) ==
    IF url_parts.timestamp.some THEN segment \o <<".">> \o url_parts.timestamp.v
    ELSE segment

SegmentValid(segment) == unescape_and_validate_uuid(<<>>, segment).ok

\* C23: format_ark_url joins NAAN, version, project id, resource segment
\* and the optional value segment with '/' and appends '.' and the
\* timestamp when there is one; the segments are inserted as given, with
\* no check digit computed, appended or validated; parsing the result under
\* the v1 grammar gives the parts back whenever the segments validate.
C23_FormatJoins ==
    /\ ~IsPending(url) =>
          /\ url.ok <=> (/\ url_parts.project_id # <<>>
                         /\ url_parts.resource_id # <<>>
                         /\ (url_parts.timestamp.some => url_parts.timestamp.v # <<>>)
                         /\ get_boolean(settings.ark_config, "ArkHttpsProxy").ok)
          /\ url.ok =>
                /\ Len(UrlPieces) = (IF url_parts.value_id.some THEN 6 ELSE 5)
                /\ UrlPieces[1] = <<"a", "r", "k", ":">>
                /\ UrlPieces[2] = settings.ark_naan
                /\ UrlPieces[3] = ToDecimal(settings.dsp_ark_version)
                /\ UrlPieces[4] = url_parts.project_id
                /\ UrlPieces[5] = (IF url_parts.value_id.some THEN url_parts.resource_id
                                   ELSE ExpectedLast(url_parts.resource_id))
                /\ url_parts.value_id.some => UrlPieces[6] = ExpectedLast(url_parts.value_id.v)
    /\ ~IsPending(parsed.result) =>
          /\ request = ArkIdOf(url.val)
          /\ parsed.result.ok <=>
                (/\ SegmentValid(url_parts.resource_id)
                 /\ (url_parts.value_id.some => SegmentValid(url_parts.value_id.v)))
          /\ parsed.result.ok =>
                /\ parsed.result.val.project_id = Some(url_parts.project_id)
                /\ parsed.result.val.resource_id
                      = Some(unescape_and_validate_uuid(<<>>, url_parts.resource_id).val)
                /\ parsed.result.val.timestamp = url_parts.timestamp

\* C23 witness: a URL was formatted from a resource segment whose last
\* character is not its check digit, a value segment and a timestamp.
C23_Witness ==
    /\ url.ok
    /\ url_parts.resource_id # <<>>
    /\ ~SegmentValid(url_parts.resource_id)
    /\ url_parts.value_id.some
    /\ url_parts.timestamp.some

-----------------------------------------------------------------------------
(* The template specification: substitute is handed a template made of     *)
(* literal text and placeholders, and a substitution map.                  *)

Literal(text) == [kind |-> "literal", text |-> text]

Braced(name) == [kind |-> "braced", text |-> name]

Bare(name) == [kind |-> "bare", text |-> name]

\* The text of a piece as it is written in the template
Written(token) ==
    CASE token.kind = "literal" -> token.text
      [] token.kind = "braced"  -> <<"$", "{">> \o token.text \o <<"}">>
      [] token.kind = "bare"    -> <<"$">> \o token.text

RECURSIVE TemplateText(_)
TemplateText(tokens) ==
    IF tokens = <<>> THEN <<>>
    ELSE Written(Head(tokens)) \o TemplateText(Tail(tokens))

\* Literal pieces start with a character that ends a bare placeholder's
\* name; the placeholder names are keys of the map (host, project_id) and
\* names that are not (hostname, which starts with a key, and label).
TemplateTokens ==
    {Literal(<<"/">>), Literal(<<"-", "r", "/">>)}
    \cup {Braced(name) : name \in {<<"h", "o", "s", "t">>, <<"p", "r", "o", "j", "e", "c", "t", "_", "i", "d">>, <<"h", "o", "s", "t", "n", "a", "m", "e">>, <<"l", "a", "b", "e", "l">>}}
    \cup {Bare(name) : name \in {<<"h", "o", "s", "t">>, <<"p", "r", "o", "j", "e", "c", "t", "_", "i", "d">>, <<"h", "o", "s", "t", "n", "a", "m", "e">>, <<"l", "a", "b", "e", "l">>}}

TemplateLength == 2

\* Substitution maps: entries as generate_dsp_redirect_url inserts them
TemplateValues ==
    {EmptyDict,
     Insert(EmptyDict, "host", <<"a", "p", "p">>),
     Insert(EmptyDict, "project_id", <<"0", "0", "0", "1">>),
     Insert(Insert(EmptyDict, "host", <<"a", "p", "p">>), "project_id", <<"0", "0", "0", "1">>)}

InitTemplate ==
    /\ CodecIdle
    /\ ParserIdle
    /\ inner = None
    /\ key_order \in KeyOrders
    /\ selected = Pending
    /\ redirect = NotGenerated
    /\ dsp_redirect = NotGenerated
    /\ standalone_iri = NotCalled
    /\ FormatterIdle
    /\ ModulusIdle
    /\ tasks = <<>>
    /\ tpl_tokens \in [1..TemplateLength -> TemplateTokens]
    /\ tpl_values \in TemplateValues
    /\ tpl_result = Pending

\* TemplateAdapter::substitute(template, values), the map yielding its
\* entries in key_order
Substitute ==
    /\ IsPending(tpl_result)
    /\ \E text \in {TemplateText(tpl_tokens)} :
          tpl_result' = substitute(text, tpl_values, key_order)
    /\ UNCHANGED <<tpl_tokens, tpl_values>>
    /\ UNCHANGED <<parserVars, engineVars, codecVars, formatterVars, modulusVars, tasks>>

NextTemplate == Substitute

SpecTemplate == InitTemplate /\ [][NextTemplate]_vars

-----------------------------------------------------------------------------
(* Claims about substitute (under SpecTemplate).                           *)

\* The key whose text is name, if the map holds one
KeysNamed(name, values) == {k \in DOMAIN values : KeyText[k] = name}

\* What a piece is to become: a placeholder whose key is in the map becomes
\* the key's value, every other piece stays as written.
Substituted(token, values) ==
    IF token.kind # "literal" /\ KeysNamed(token.text, values) # {}
    THEN values[CHOOSE k \in KeysNamed(token.text, values) : TRUE]
    ELSE Written(token)

RECURSIVE SubstitutedText(_, _)
SubstitutedText(tokens, values) ==
    IF tokens = <<>> THEN <<>>
    ELSE Substituted(Head(tokens), values) \o SubstitutedText(Tail(tokens), values)

\* C24: substitute replaces every ${key} and bare $key whose key is in the
\* map by the key's value, leaves every placeholder whose key is not in the
\* map as written, and does not fail.
C24_Substitution ==
    ~IsPending(tpl_result) =>
        /\ tpl_result.ok
        /\ tpl_result.val = SubstitutedText(tpl_tokens, tpl_values)

\* A bare placeholder whose name goes on after a key of the map
ExtendsKey(token, values) ==
    /\ token.kind = "bare"
    /\ KeysNamed(token.text, values) = {}
    /\ \E k \in DOMAIN values :
          /\ Len(KeyText[k]) < Len(token.text)
          /\ SubSeq(token.text, 1, Len(KeyText[k])) = KeyText[k]

\* The same property for templates without such a placeholder
SubstitutionWithoutExtendedKeys ==
    (/\ ~IsPending(tpl_result)
     /\ \A i \in 1..Len(tpl_tokens) : ~ExtendsKey(tpl_tokens[i], tpl_values)) =>
        /\ tpl_result.ok
        /\ tpl_result.val = SubstitutedText(tpl_tokens, tpl_values)

-----------------------------------------------------------------------------
(* The order of the version comparison and segment validation (under Spec). *)

-----------------------------------------------------------------------------
(* The transcription specification: a code that is_valid accepts is copied *)
(* with one error and the copy is handed to is_valid.                      *)

MaxPayloadLen == 2

\* Alphabet values 0, 1, 32, 61, 62 and 63
PayloadChars == {"A", "B", "g", "9", "-", "_"}

\* The codes is_valid accepts: the check digit has weight 1, so the last
\* character of an accepted code is the one calculate_check_digit gives for
\* the characters before it.
ValidCodes ==
    {Append(payload, calculate_check_digit(payload).val) :
        payload \in {p \in StringsUpTo(PayloadChars, MaxPayloadLen) :
                        calculate_check_digit(p).ok}}

InitTranscription ==
    /\ code \in ValidCodes
    /\ check = Pending
    /\ valid = Pending
    /\ escaped = Pending
    /\ unescaped = Pending
    /\ context = <<>>
    /\ ParserIdle
    /\ EngineIdle
    /\ FormatterIdle
    /\ ModulusIdle
    /\ tasks = <<>>
    /\ TemplateIdle

Copied(kind, copy) == [kind |-> kind, code |-> copy, valid |-> is_valid(copy)]

\* is_valid(copy), where copy is code with the character at one position
\* replaced by a different character of the alphabet
SubstituteCharacter ==
    /\ transcribed.kind = "none"
    /\ \E i \in 1..Len(code), n \in 1..BASE64URL_ALPHABET_LENGTH :
          /\ BASE64URL_ALPHABET[n] # code[i]
          /\ \E copy \in {[code EXCEPT ![i] = BASE64URL_ALPHABET[n]]} :
                transcribed' = Copied("substitute", copy)
    /\ UNCHANGED <<includes, modulus, legacy_unescaped, legacy>>
    /\ UNCHANGED <<codecVars, parserVars, engineVars, formatterVars, tasks, templateVars>>

\* is_valid(copy), where copy is code with two neighbouring characters that
\* differ exchanged
TransposeNeighbours ==
    /\ transcribed.kind = "none"
    /\ \E i \in 1..(Len(code) - 1) :
          /\ code[i] # code[i + 1]
          /\ \E copy \in {[code EXCEPT ![i] = code[i + 1], ![i + 1] = code[i]]} :
                transcribed' = Copied("transpose", copy)
    /\ UNCHANGED <<includes, modulus, legacy_unescaped, legacy>>
    /\ UNCHANGED <<codecVars, parserVars, engineVars, formatterVars, tasks, templateVars>>

NextTranscription ==
    \/ SubstituteCharacter
    \/ TransposeNeighbours

SpecTranscription == InitTranscription /\ [][NextTranscription]_vars

-----------------------------------------------------------------------------
(* Claims about the errors the check digit detects (SpecTranscription).    *)

CopyAccepted == transcribed.valid.ok /\ transcribed.valid.val

\* C27: a code is_valid accepts, with exactly one character replaced by a
\* different character of the alphabet, is a code is_valid rejects.
C27_SubstitutionDetected ==
    transcribed.kind = "substitute" => (is_valid(code).val /\ ~CopyAccepted)

\* The position, counted from the right, at which copy differs from code
ChangedWeight ==
    Len(code) + 1 - (CHOOSE i \in 1..Len(code) : transcribed.code[i] # code[i])

\* The same for a replacement at a position of odd weight: the check digit
\* itself, the third character from the right, and so on.
SubstitutionDetectedAtOddWeight ==
    (transcribed.kind = "substitute" /\ ChangedWeight % 2 = 1) => ~CopyAccepted

\* C28: a code is_valid accepts, with two neighbouring characters that
\* differ exchanged, is a code is_valid rejects.
C28_TranspositionDetected ==
    transcribed.kind = "transpose" => (is_valid(code).val /\ ~CopyAccepted)

\* C28 witness: the last character of the code and the check digit were
\* exchanged and the copy was rejected.
C28_Witness ==
    /\ transcribed.kind = "transpose"
    /\ Len(code) = 3
    /\ transcribed.code[3] = code[2]
    /\ transcribed.code[1] = code[1]
    /\ transcribed.valid.ok
    /\ ~transcribed.valid.val

-----------------------------------------------------------------------------
(* The timestamp of a version 0 id in the redirect URL (under SpecEngine). *)

\* A redirect URL was built for a version 0 id with a timestamp
LegacyTimestampRedirected ==
    /\ inner.some
    /\ is_version_0(inner.v)
    /\ has_timestamp(inner.v)
    /\ redirect.result.ok
    /\ "timestamp" \in DOMAIN redirect.dict

LegacyTimestampAsParsed ==
    LegacyTimestampRedirected =>
        /\ redirect.dict["timestamp"] = inner.v.timestamp.v
        /\ redirect.dict["timestamp"] # get_timestamp(inner.v).v

-----------------------------------------------------------------------------
(* The legacy specification: the functions of base64url_ckeck_digit.rs and *)
(* src/uuid_processing.rs, which the ARK id builder uses, are handed a     *)
(* code, and what the builder's escaper returns is handed to the parser's  *)
(* unescape_and_validate_uuid.                                             *)

InitLegacy ==
    /\ code \in Codes
    /\ check = Pending
    /\ valid = Pending
    /\ escaped = Pending
    /\ unescaped = Pending
    /\ context = <<>>
    /\ ParserIdle
    /\ EngineIdle
    /\ FormatterIdle
    /\ ModulusIdle
    /\ tasks = <<>>
    /\ TemplateIdle

\* base64url_ckeck_digit::is_valid(code)
LegacyIsValid ==
    /\ IsPending(legacy.valid)
    /\ legacy' = [legacy EXCEPT !.valid = legacy_is_valid(code)]
    /\ UNCHANGED <<includes, modulus, legacy_unescaped, transcribed>>
    /\ UNCHANGED <<codecVars, parserVars, engineVars, formatterVars, tasks, templateVars>>

\* base64url_ckeck_digit::calculate_check_digit(code)
LegacyCalculateCheckDigit ==
    /\ IsPending(legacy.check)
    /\ legacy' = [legacy EXCEPT !.check = legacy_calculate_check_digit(code)]
    /\ UNCHANGED <<includes, modulus, legacy_unescaped, transcribed>>
    /\ UNCHANGED <<codecVars, parserVars, engineVars, formatterVars, tasks, templateVars>>

\* add_check_digit_and_escape_internal(code)
LegacyAddCheckDigitAndEscape ==
    /\ IsPending(legacy.escaped)
    /\ legacy' = [legacy EXCEPT !.escaped = add_check_digit_and_escape_internal(code)]
    /\ UNCHANGED <<includes, modulus, legacy_unescaped, transcribed>>
    /\ UNCHANGED <<codecVars, parserVars, engineVars, formatterVars, tasks, templateVars>>

\* unescape_and_validate_uuid(context, segment), segment being what
\* add_check_digit_and_escape_internal returned
UnescapeLegacyEscaped ==
    /\ legacy.escaped.ok
    /\ IsPending(unescaped)
    /\ unescaped' = unescape_and_validate_uuid(context, legacy.escaped.val)
    /\ UNCHANGED <<code, check, valid, escaped, context>>
    /\ UNCHANGED <<parserVars, engineVars, formatterVars, modulusVars, tasks, templateVars>>

NextLegacy ==
    \/ LegacyIsValid
    \/ LegacyCalculateCheckDigit
    \/ LegacyAddCheckDigitAndEscape
    \/ UnescapeLegacyEscaped

SpecLegacy == InitLegacy /\ [][NextLegacy]_vars

-----------------------------------------------------------------------------
(* Claims about the legacy functions (under SpecLegacy).                   *)

\* Two results of the same call: both fail, or both succeed with one value.
SameOutcome(a, b) == (a.ok <=> b.ok) /\ (a.ok => a.val = b.val)

\* C30: is_valid and calculate_check_digit of base64url_ckeck_digit.rs and
\* add_check_digit_and_escape_internal succeed on the inputs on which
\* is_valid, calculate_check_digit and add_check_digit_and_escape of the
\* core succeed, with the same value, and a segment the builder's escaper
\* returned is accepted by the parser's unescape_and_validate_uuid, which
\* gives the code back.
C30_LegacyAgrees ==
    /\ ~IsPending(legacy.valid) => SameOutcome(legacy.valid, is_valid(code))
    /\ ~IsPending(legacy.check) => SameOutcome(legacy.check, calculate_check_digit(code))
    /\ ~IsPending(legacy.escaped)
          => SameOutcome(legacy.escaped, add_check_digit_and_escape(code))
    /\ ~IsPending(unescaped) => (unescaped.ok /\ unescaped.val = code)

\* C30 witness: a code with a '-' was escaped by the builder's escaper and
\* recovered by the parser's, and the legacy is_valid and
\* calculate_check_digit returned as well.
C30_Witness ==
    /\ \E i \in 1..Len(code) : code[i] = "-"
    /\ legacy.escaped.ok
    /\ legacy.check.ok
    /\ ~IsPending(legacy.valid)
    /\ unescaped.ok
    /\ unescaped.val = code

=============================================================================
